---- MODULE Spec2Model ----
(***************************************************************************)
(* A model of the inverted-index builder of 121-search-engine: the         *)
(* duplicate detector (SHA-256 exact check, SimHash banded near check),    *)
(* the in-memory index (Index / IndexEntry / Posting), the document loop   *)
(* of build_index with its partial-index spills, and the heap-based k-way  *)
(* merge of partial indexes into letter shards.                            *)
(*                                                                         *)
(* Conventions.                                                            *)
(*   - Python None is the empty tuple, a present value x is <<x>>.         *)
(*   - A str token is the tuple of its code points ("ab" = <<97, 98>>);    *)
(*     str comparison is the lexicographic order of the code points.       *)
(*   - A 64-bit int (an MD5 prefix, a SimHash fingerprint) is a tuple of   *)
(*     four 16-bit limbs, least significant first; Bit reads one bit.      *)
(*   - A dict is a function on its key set; a list is a sequence.          *)
(*   - A file is the sequence of the JSON objects of its lines.            *)
(***************************************************************************)
EXTENDS Integers, Sequences, FiniteSets, TLC

\* ------------------------------------------------------------------------
\* Python values
\* ------------------------------------------------------------------------

None == <<>>

Some(x) == <<x>>

EmptyDict == <<>>

DictGet(d, k, default) == IF k \in DOMAIN d THEN d[k] ELSE default

DictPut(d, k, v) == (k :> v) @@ d

RECURSIVE SumFn(_, _)
SumFn(f, S) ==
    IF S = {} THEN 0
    ELSE LET x == CHOOSE y \in S : TRUE
         IN  f[x] + SumFn(f, S \ {x})

Max2(a, b) == IF a >= b THEN a ELSE b

\* ------------------------------------------------------------------------
\* lib/globals.py
\* ------------------------------------------------------------------------

HAMMING_K == 3

NUM_BITS == 64

\* ------------------------------------------------------------------------
\* The vocabulary: stemmed tokens, with the first 8 bytes of their MD5
\* digests (big-endian), as hashlib.md5 computes them.
\* ------------------------------------------------------------------------

t_a == <<97>>

t_b == <<98>>

t_z == <<122>>

t_aa == <<97, 97>>

t_ab == <<97, 98>>

t_ba == <<98, 97>>

t_cq == <<99, 113>>

\* int.from_bytes(hashlib.md5(term.encode("utf-8")).digest()[:8], "big")
md5_64(term) ==
    CASE term = t_a  -> <<46760, 49393, 30137, 3265>>
      [] term = t_b  -> <<12268, 59054, 24574, 37611>>
      [] term = t_z  -> <<14035, 27199, 59875, 64429>>
      [] term = t_aa -> <<49791, 37685, 48138, 16676>>
      [] term = t_ab -> <<53708, 24866, 62531, 6270>>
      [] term = t_ba -> <<6574, 60955, 40007, 1813>>
      [] term = t_cq -> <<24767, 46742, 44042, 7209>>

\* 2 ** j, j < 16
Pow2 == [j \in 0..15 |-> 2 ^ j]

\* (x >> i) & 1 of a 64-bit int
Bit(x, i) == IF i >= 64 THEN 0 ELSE (x[(i \div 16) + 1] \div Pow2[i % 16]) % 2

\* bits 16*l .. 16*l+15 of the int whose bit i is bits[i]
Limb(bits, l) ==
    SumFn([j \in 0..15 |-> IF 16 * l + j \in DOMAIN bits
                           THEN bits[16 * l + j] * Pow2[j] ELSE 0],
          0..15)

\* the int whose bit i is bits[i], for the bit positions 0..63
FromBits(bits) == <<Limb(bits, 0), Limb(bits, 1), Limb(bits, 2), Limb(bits, 3)>>

Vocabulary == {t_a, t_b, t_z, t_aa, t_ab, t_ba, t_cq}

\* the bits of the MD5 prefixes of the vocabulary
md5_bits == [t \in Vocabulary |-> [i \in 0..63 |-> Bit(md5_64(t), i)]]

\* ------------------------------------------------------------------------
\* lib/duplicate_detector.py
\* ------------------------------------------------------------------------

\* the loop over token_counts.items(): bit_sums after the terms of todo
RECURSIVE accumulate(_, _, _)
accumulate(bit_sums, token_counts, todo) ==
    IF todo = {} THEN bit_sums
    ELSE LET term == CHOOSE t \in todo : TRUE
         IN  accumulate(
                 IF token_counts[term] <= 0 THEN bit_sums
                 ELSE [i \in DOMAIN bit_sums |->
                          IF md5_bits[term][i] = 1
                          THEN bit_sums[i] + token_counts[term]
                          ELSE bit_sums[i] - token_counts[term]],
                 token_counts, todo \ {term})

fingerprint_of(bit_sums) ==
    FromBits([i \in DOMAIN bit_sums |-> IF bit_sums[i] > 0 THEN 1 ELSE 0])

compute_simhash(token_counts, num_bits) ==
    fingerprint_of(accumulate([i \in 0..(num_bits - 1) |-> 0],
                              token_counts, DOMAIN token_counts))

hamming_distance(a, b, bits) ==
    Cardinality({i \in 0..(bits - 1) : Bit(a, i) # Bit(b, i)})

block_values(fingerprint, num_bits, num_blocks) ==
    LET block_size == num_bits \div num_blocks
    IN  [i \in 1..num_blocks |->
            SumFn([j \in 0..(block_size - 1) |->
                      Bit(fingerprint, (i - 1) * block_size + j) * (2 ^ j)],
                  0..(block_size - 1))]

\* SHA-256 as a collision-free digest: the digest of a content is a value
\* that names it and is equal for equal contents only.
content_hash(content) == <<"sha256", content>>

\* DuplicateDetector.__init__
DuplicateDetector(hamming_k) ==
    [seen_content_hashes |-> {},
     hamming_k           |-> hamming_k,
     num_blocks          |-> hamming_k + 1,
     block_indexes       |-> [i \in 1..(hamming_k + 1) |-> EmptyDict]]

\* a near-duplicate scan that looks into the bucket of the first block only
near_match_first_block(self, simhash) ==
    LET blocks == block_values(simhash, NUM_BITS, self.num_blocks)
        candidates == DictGet(self.block_indexes[1], blocks[1], <<>>)
    IN  \E c \in 1..Len(candidates) :
            hamming_distance(simhash, candidates[c][1], NUM_BITS) <= self.hamming_k

\* the near-duplicate scan of check: some bucket of a block of simhash holds
\* a fingerprint within hamming_k
near_match(self, simhash) ==
    LET blocks == block_values(simhash, NUM_BITS, self.num_blocks)
    IN  \E i \in 1..self.num_blocks :
            LET candidates == DictGet(self.block_indexes[i], blocks[i], <<>>)
            IN  \E c \in 1..Len(candidates) :
                    hamming_distance(simhash, candidates[c][1], NUM_BITS)
                        <= self.hamming_k

\* check with the near-duplicate scan ahead of the content-hash lookup
check_near_first(self, content, token_counts) ==
    IF content = None THEN [reason |-> None, simhash |-> None]
    ELSE IF token_counts = None THEN [reason |-> None, simhash |-> None]
    ELSE LET simhash == compute_simhash(token_counts[1], NUM_BITS)
         IN  IF near_match(self, simhash)
             THEN [reason |-> Some("near"), simhash |-> None]
             ELSE IF content_hash(content[1]) \in self.seen_content_hashes
             THEN [reason |-> Some("exact"), simhash |-> None]
             ELSE [reason |-> None, simhash |-> Some(simhash)]

\* DuplicateDetector.check: the pair (skip_reason, simhash_or_none)
check(self, content, token_counts) ==
    IF content = None THEN [reason |-> None, simhash |-> None]
    ELSE IF token_counts = None THEN [reason |-> None, simhash |-> None]
    ELSE IF content_hash(content[1]) \in self.seen_content_hashes
         THEN [reason |-> Some("exact"), simhash |-> None]
    ELSE LET simhash == compute_simhash(token_counts[1], NUM_BITS)
         IN  IF near_match(self, simhash)
             THEN [reason |-> Some("near"), simhash |-> None]
             ELSE [reason |-> None, simhash |-> Some(simhash)]

\* add_doc that files the fingerprint under its first block only
add_doc_first_block(self, simhash, doc_id) ==
    LET blocks == block_values(simhash, NUM_BITS, self.num_blocks)
    IN  [self EXCEPT !.block_indexes[1] =
            DictPut(@, blocks[1],
                    Append(DictGet(@, blocks[1], <<>>), <<simhash, doc_id>>))]

\* DuplicateDetector.add_doc
add_doc(self, simhash, doc_id) ==
    LET blocks == block_values(simhash, NUM_BITS, self.num_blocks)
    IN  [self EXCEPT !.block_indexes =
            [i \in 1..self.num_blocks |->
                DictPut(self.block_indexes[i], blocks[i],
                        Append(DictGet(self.block_indexes[i], blocks[i], <<>>),
                               <<simhash, doc_id>>))]]

\* DuplicateDetector.register_content_hash
register_content_hash(self, content) ==
    IF content # None
    THEN [self EXCEPT !.seen_content_hashes = @ \cup {content_hash(content[1])}]
    ELSE self

\* ------------------------------------------------------------------------
\* str comparison and bisect
\* ------------------------------------------------------------------------

\* a < b on str: lexicographic on the code points
RECURSIVE str_lt(_, _)
str_lt(a, b) ==
    IF b = <<>> THEN FALSE
    ELSE IF a = <<>> THEN TRUE
    ELSE IF a[1] < b[1] THEN TRUE
    ELSE IF a[1] > b[1] THEN FALSE
    ELSE str_lt(Tail(a), Tail(b))

\* bisect.bisect_left on a list of int keys: the 0-based insertion point
RECURSIVE bisect_left(_, _, _, _)
bisect_left(keys, x, lo, hi) ==
    IF lo < hi
    THEN LET mid == (lo + hi) \div 2
         IN  IF keys[mid + 1] < x
             THEN bisect_left(keys, x, mid + 1, hi)
             ELSE bisect_left(keys, x, lo, mid)
    ELSE lo

\* bisect.bisect_right on a list of int keys
RECURSIVE bisect_right(_, _, _, _)
bisect_right(keys, x, lo, hi) ==
    IF lo < hi
    THEN LET mid == (lo + hi) \div 2
         IN  IF x < keys[mid + 1]
             THEN bisect_right(keys, x, lo, mid)
             ELSE bisect_right(keys, x, mid + 1, hi)
    ELSE lo

\* bisect.bisect_right on a list of str keys
RECURSIVE bisect_right_str(_, _, _, _)
bisect_right_str(keys, x, lo, hi) ==
    IF lo < hi
    THEN LET mid == (lo + hi) \div 2
         IN  IF str_lt(x, keys[mid + 1])
             THEN bisect_right_str(keys, x, lo, mid)
             ELSE bisect_right_str(keys, x, mid + 1, hi)
    ELSE lo

\* list.insert(i, x), i 0-based
list_insert(a, i, x) == SubSeq(a, 1, i) \o <<x>> \o SubSeq(a, i + 1, Len(a))

\* ------------------------------------------------------------------------
\* lib/index.py: Importance, Posting, IndexEntry
\* ------------------------------------------------------------------------

NORMAL == 0

BOLD_OR_HEADING == 1

TITLE == 2

Posting(doc_id, tf, importance) ==
    [doc_id |-> doc_id, tf |-> tf, importance |-> importance]

IndexEntry(token) == [token |-> token, postings |-> <<>>, document_frequency |-> 0]

doc_ids(postings) == [i \in 1..Len(postings) |-> postings[i].doc_id]

\* IndexEntry.get_posting: the 1-based position of the posting, 0 for None
IndexEntry_get_posting(self, doc_id) ==
    LET i == bisect_left(doc_ids(self.postings), doc_id, 0, Len(self.postings))
    IN  IF i # Len(self.postings) /\ self.postings[i + 1].doc_id = doc_id
        THEN i + 1 ELSE 0

\* the posting is put at the end of the list
IndexEntry_append_posting(self, posting) ==
    [self EXCEPT !.postings = Append(@, posting)]

\* IndexEntry.add_posting: bisect.insort by doc_id
IndexEntry_add_posting(self, posting) ==
    LET i == bisect_right(doc_ids(self.postings), posting.doc_id, 0, Len(self.postings))
    IN  [self EXCEPT !.postings = list_insert(@, i, posting)]

\* an update that overwrites the importance of the posting
IndexEntry_add_or_overwrite_posting(self, doc_id, tf_delta, importance) ==
    LET k == IndexEntry_get_posting(self, doc_id)
    IN  IF k # 0
        THEN [self EXCEPT !.postings[k].tf = @ + tf_delta,
                          !.postings[k].importance = importance]
        ELSE [IndexEntry_add_posting(self, Posting(doc_id, tf_delta, importance))
                 EXCEPT !.document_frequency = @ + 1]

\* IndexEntry.add_or_update_posting
IndexEntry_add_or_update_posting(self, doc_id, tf_delta, importance) ==
    LET k == IndexEntry_get_posting(self, doc_id)
    IN  IF k # 0
        THEN [self EXCEPT !.postings[k].tf = @ + tf_delta,
                          !.postings[k].importance =
                              IF importance > @ THEN importance ELSE @]
        ELSE [IndexEntry_add_posting(self, Posting(doc_id, tf_delta, importance))
                 EXCEPT !.document_frequency = @ + 1]

\* IndexEntry.merge: the loop over other.postings from position k on
RECURSIVE IndexEntry_merge_from(_, _, _)
IndexEntry_merge_from(self, postings, k) ==
    IF k > Len(postings) THEN self
    ELSE IndexEntry_merge_from(
             IndexEntry_add_or_update_posting(
                 self, postings[k].doc_id, postings[k].tf, postings[k].importance),
             postings, k + 1)

IndexEntry_merge(self, other) == IndexEntry_merge_from(self, other.postings, 1)

\* IndexEntry.calculate_document_frequency
IndexEntry_calculate_document_frequency(self) ==
    [self EXCEPT !.document_frequency =
        Cardinality({self.postings[i].doc_id : i \in 1..Len(self.postings)})]

\* ------------------------------------------------------------------------
\* lib/index.py: Index.  IndexEntry objects live in a heap objs (a sequence,
\* an object's identity is its position); an Index holds references.
\* ------------------------------------------------------------------------

Index_new == [entries |-> <<>>, token_to_entry |-> EmptyDict]

entry_tokens(objs, entries) == [i \in 1..Len(entries) |-> objs[entries[i]].token]

\* the entry is put at the end of the list
append_entry(objs, entries, ref) == Append(entries, ref)

\* bisect.insort(self.entries, entry, key=lambda x: x.token)
insort_entry(objs, entries, ref) ==
    list_insert(entries,
                bisect_right_str(entry_tokens(objs, entries), objs[ref].token,
                                 0, Len(entries)),
                ref)

\* add_token that returns early for a negative tf only
Index_add_token_rejecting_negative_only(objs, self, token, doc_id, tf, importance) ==
    IF tf < 0 THEN [objs |-> objs, index |-> self]
    ELSE LET have  == token \in DOMAIN self.token_to_entry
             objs1 == IF have THEN objs ELSE Append(objs, IndexEntry(token))
             ref   == IF have THEN self.token_to_entry[token] ELSE Len(objs) + 1
             self1 == IF have THEN self
                      ELSE [entries        |-> insort_entry(objs1, self.entries, ref),
                            token_to_entry |-> DictPut(self.token_to_entry, token, ref)]
         IN  [objs  |-> [objs1 EXCEPT ![ref] =
                            IndexEntry_add_or_update_posting(@, doc_id, tf, importance)],
              index |-> self1]

\* Index.add_token: the heap and the index after the call
Index_add_token(objs, self, token, doc_id, tf, importance) ==
    IF tf <= 0 THEN [objs |-> objs, index |-> self]
    ELSE LET have  == token \in DOMAIN self.token_to_entry
             objs1 == IF have THEN objs ELSE Append(objs, IndexEntry(token))
             ref   == IF have THEN self.token_to_entry[token] ELSE Len(objs) + 1
             self1 == IF have THEN self
                      ELSE [entries        |-> insort_entry(objs1, self.entries, ref),
                            token_to_entry |-> DictPut(self.token_to_entry, token, ref)]
         IN  [objs  |-> [objs1 EXCEPT ![ref] =
                            IndexEntry_add_or_update_posting(@, doc_id, tf, importance)],
              index |-> self1]

\* Index.__len__
Index_len(self) == Len(self.entries)

\* Index.merge: the loop over other.entries from position k on.  An entry of
\* other whose token is new to self is adopted by reference.
RECURSIVE Index_merge_from(_, _, _, _)
Index_merge_from(objs, self, entries, k) ==
    IF k > Len(entries) THEN [objs |-> objs, index |-> self]
    ELSE LET ref   == entries[k]
             token == objs[ref].token
         IN  IF token \notin DOMAIN self.token_to_entry
             THEN Index_merge_from(
                      objs,
                      [entries        |-> insort_entry(objs, self.entries, ref),
                       token_to_entry |-> DictPut(self.token_to_entry, token, ref)],
                      entries, k + 1)
             ELSE Index_merge_from(
                      [objs EXCEPT ![self.token_to_entry[token]] =
                          IndexEntry_merge(@, objs[ref])],
                      self, entries, k + 1)

\* a merge that adopts the new tokens of other and ignores the rest
Index_merge_new_tokens_only(objs, self, other) ==
    LET fresh == SelectSeq(other.entries,
                           LAMBDA ref : objs[ref].token \notin DOMAIN self.token_to_entry)
    IN  Index_merge_from(objs, self, fresh, 1)

\* Index.merge
Index_merge(objs, self, other) == Index_merge_from(objs, self, other.entries, 1)

\* code/index_io.py _entry_to_dict: the JSON object of one entry
entry_to_dict(entry) == [token |-> entry.token, postings |-> entry.postings]

\* write_partial_index: the file written for an index, one object per entry
\* in the order of index.entries
write_partial_index(objs, index) ==
    [i \in 1..Len(index.entries) |-> entry_to_dict(objs[index.entries[i]])]

\* ------------------------------------------------------------------------
\* Documents.  An HTML string is the sequence of its elements, each a tag with
\* the words of its text; a word is the tuple of its code points.
\* ------------------------------------------------------------------------

elem(tag, text) == [tag |-> tag, text |-> text]

w_A == <<65>>

w_dash == <<45>>

\* <title>A</title><p>a z aa</p>
H0 == <<elem("title", <<w_A>>), elem("p", <<t_a, t_z, t_aa>>)>>

\* <title>A</title><p>a z ba</p>
H1 == <<elem("title", <<w_A>>), elem("p", <<t_a, t_z, t_ba>>)>>

\* <title>A</title><p>a z cq</p>
H2 == <<elem("title", <<w_A>>), elem("p", <<t_a, t_z, t_cq>>)>>

\* <p>a a</p><b>z aa</b>: the words of H0 in another markup
H0b == <<elem("p", <<t_a, t_a>>), elem("b", <<t_z, t_aa>>)>>

\* <h1>b -</h1>
Hb == <<elem("h1", <<t_b, w_dash>>)>>

\* the empty string
Hempty == <<>>

HtmlPool == {H0, H1, H2, H0b, Hb, Hempty}

RECURSIVE concat_text(_)
concat_text(elems) ==
    IF elems = <<>> THEN <<>> ELSE Head(elems).text \o concat_text(Tail(elems))

IMPORTANT_TAGS == {"h1", "h2", "h3", "b", "strong"}

\* code/parse_text.py extract_text: (normal_text, important_text), each the
\* sequence of the words of the text
extract_text(html_text) ==
    IF Len(html_text) = 0 THEN <<<<>>, <<>>>>
    ELSE LET titles == SelectSeq(html_text, LAMBDA e : e.tag = "title")
             title_text == IF titles = <<>> THEN <<>> ELSE Head(titles).text
             tagged == SelectSeq(html_text, LAMBDA e : e.tag \in IMPORTANT_TAGS)
         IN  <<concat_text(html_text), title_text \o concat_text(tagged)>>

isalnum_ascii(raw) ==
    /\ raw # <<>>
    /\ \A i \in 1..Len(raw) :
          \/ raw[i] \in 48..57
          \/ raw[i] \in 65..90
          \/ raw[i] \in 97..122

lower(raw) == [i \in 1..Len(raw) |-> IF raw[i] \in 65..90 THEN raw[i] + 32 ELSE raw[i]]

\* PorterStemmer().stem: words of at most two letters are returned unchanged
stem(word) == word

\* lib/tokenizer.py tokenize, lines 18-26: the loop over the spans from
\* position k on, counts being the dict built so far
RECURSIVE tokenize_from(_, _, _)
tokenize_from(counts, text, k) ==
    IF k > Len(text) THEN counts
    ELSE IF ~isalnum_ascii(text[k]) THEN tokenize_from(counts, text, k + 1)
    ELSE LET stemmed == stem(lower(text[k]))
         IN  tokenize_from(DictPut(counts, stemmed, DictGet(counts, stemmed, 0) + 1),
                           text, k + 1)

\* lib/tokenizer.py tokenize: the counts dict (the first component)
tokenize(text) == tokenize_from(EmptyDict, text, 1)

\* ------------------------------------------------------------------------
\* Bounds of the model
\* ------------------------------------------------------------------------

\* documents yielded by iter_documents in one run
MaxDocs == 4

\* lib/globals.py BATCH_SIZE, scaled down
BATCH_SIZE == 2

\* ------------------------------------------------------------------------
\* State
\* ------------------------------------------------------------------------

VARIABLES
    pc,                  \* position of the running program
    yielded,             \* history: the html of every document yielded so far
    cur_doc,             \* the (url, html) of the current loop iteration
    file_count,
    next_doc_id,
    exact_dups_removed,
    near_dups_removed,
    doc_id_to_url,
    detector,
    objs,                \* heap of IndexEntry objects
    current_index,
    partial_files,       \* the partial index files, in partial_paths order
    files_pos,           \* merge: per partial file, the number of lines read
    heap,                \* merge: the list of HeapEntry
    merged,              \* merge: the (token, entry) being accumulated
    current_letter,      \* merge: the letter of the shard being written
    out_file,            \* merge: the output handle, [name, closed]
    shards,              \* the files of FINAL_INDEX_DIR, by leading letter
    opened,              \* history: the shard names opened for writing
    other_index,         \* a second Index, the argument of Index.merge
    applied,             \* history: per IndexEntry object and doc_id, the
                         \* sum of the tf deltas and the largest importance applied
    n_ops,               \* the number of calls made on the objects under test
    added,               \* history: the fingerprints passed to add_doc
    last_check,          \* the arguments and result of the latest check call
    search_out           \* the arguments and outcome of the latest query call

build_vars == <<yielded, cur_doc, file_count, next_doc_id, exact_dups_removed,
                near_dups_removed, doc_id_to_url, detector, objs, current_index>>

merge_vars == <<files_pos, heap, merged, current_letter, out_file, shards, opened>>

unit_vars == <<other_index, applied, n_ops, added, last_check, search_out>>

vars == <<pc, build_vars, partial_files, merge_vars, unit_vars>>

\* ------------------------------------------------------------------------
\* main.py build_index: the document loop
\* ------------------------------------------------------------------------

\* no merge has started
MergeIdle ==
    /\ files_pos = <<>>
    /\ heap = <<>>
    /\ merged = None
    /\ current_letter = None
    /\ out_file = None
    /\ shards = EmptyDict
    /\ opened = <<>>

\* no call has been made on a lone Index or DuplicateDetector
UnitIdle ==
    /\ other_index = Index_new
    /\ applied = <<>>
    /\ n_ops = 0
    /\ added = {}
    /\ last_check = None
    /\ search_out = None

\* lines 61-68: the locals of build_index before the loop
BuildIdle ==
    /\ yielded = <<>>
    /\ cur_doc = None
    /\ file_count = 0
    /\ next_doc_id = 0
    /\ exact_dups_removed = 0
    /\ near_dups_removed = 0
    /\ doc_id_to_url = EmptyDict
    /\ detector = DuplicateDetector(HAMMING_K)
    /\ objs = <<>>
    /\ current_index = Index_new

Init ==
    /\ pc = "loop"
    /\ BuildIdle
    /\ partial_files = <<>>
    /\ MergeIdle
    /\ UnitIdle

\* the index is offloaded on every multiple of BATCH_SIZE, empty or not
offload_due_even_if_empty(fc, index) == fc % BATCH_SIZE = 0

\* the index is offloaded on every second multiple of BATCH_SIZE only
offload_due_every_other_batch(fc, index) ==
    fc % (2 * BATCH_SIZE) = 0 /\ Index_len(index) > 0

\* line 82: if file_count % BATCH_SIZE == 0 and current_index
offload_due(fc, index) == fc % BATCH_SIZE = 0 /\ Index_len(index) > 0

\* lines 69-86: the loop yields the next (url, html); file_count is bumped and
\* the in-memory index is offloaded to a new partial when due
NextDocument(html) ==
    /\ pc = "loop"
    /\ file_count < MaxDocs
    /\ file_count' = file_count + 1
    /\ yielded' = Append(yielded, html)
    /\ cur_doc' = Some([url |-> <<"url", file_count + 1>>, html |-> html])
    /\ IF offload_due(file_count + 1, current_index)
       THEN /\ partial_files' = Append(partial_files,
                                       write_partial_index(objs, current_index))
            /\ current_index' = Index_new
            /\ objs' = <<>>
       ELSE UNCHANGED <<partial_files, current_index, objs>>
    /\ pc' = "body"
    /\ UNCHANGED <<next_doc_id, exact_dups_removed, near_dups_removed,
                   doc_id_to_url, detector, merge_vars, unit_vars>>

cur_html == cur_doc[1].html

\* lines 91-93
counts_normal == tokenize(extract_text(cur_html[1])[1])

counts_important == tokenize(extract_text(cur_html[1])[2])

\* line 95
cur_check == check(detector, cur_html, Some(counts_normal))

\* lines 88-89: if html is None: continue
SkipNull ==
    /\ pc = "body"
    /\ cur_html = None
    /\ pc' = "loop"
    /\ cur_doc' = None
    /\ UNCHANGED <<yielded, file_count, next_doc_id, exact_dups_removed,
                   near_dups_removed, doc_id_to_url, detector, objs,
                   current_index, partial_files, merge_vars, unit_vars>>

\* an exact duplicate that is skipped without being counted
SkipExact_uncounted ==
    /\ pc = "body"
    /\ cur_html # None
    /\ cur_check.reason = Some("exact")
    /\ pc' = "loop"
    /\ cur_doc' = None
    /\ UNCHANGED <<yielded, file_count, next_doc_id, exact_dups_removed,
                   near_dups_removed, doc_id_to_url, detector, objs, current_index,
                   partial_files, merge_vars, unit_vars>>

\* lines 96-98
SkipExact ==
    /\ pc = "body"
    /\ cur_html # None
    /\ cur_check.reason = Some("exact")
    /\ exact_dups_removed' = exact_dups_removed + 1
    /\ pc' = "loop"
    /\ cur_doc' = None
    /\ UNCHANGED <<yielded, file_count, next_doc_id, near_dups_removed,
                   doc_id_to_url, detector, objs, current_index, partial_files,
                   merge_vars, unit_vars>>

\* a near-duplicate skip that also consumes a doc-id
SkipNear_consuming_id ==
    /\ pc = "body"
    /\ cur_html # None
    /\ cur_check.reason = Some("near")
    /\ near_dups_removed' = near_dups_removed + 1
    /\ next_doc_id' = next_doc_id + 1
    /\ pc' = "loop"
    /\ cur_doc' = None
    /\ UNCHANGED <<yielded, file_count, exact_dups_removed,
                   doc_id_to_url, detector, objs, current_index, partial_files,
                   merge_vars, unit_vars>>

\* lines 99-101
SkipNear ==
    /\ pc = "body"
    /\ cur_html # None
    /\ cur_check.reason = Some("near")
    /\ near_dups_removed' = near_dups_removed + 1
    /\ pc' = "loop"
    /\ cur_doc' = None
    /\ UNCHANGED <<yielded, file_count, next_doc_id, exact_dups_removed,
                   doc_id_to_url, detector, objs, current_index, partial_files,
                   merge_vars, unit_vars>>

\* lines 127-130: one loop of add_token calls over the items of counts
RECURSIVE add_counts(_, _, _, _, _)
add_counts(st, counts, todo, doc_id, importance) ==
    IF todo = {} THEN st
    ELSE LET token == CHOOSE t \in todo : TRUE
         IN  add_counts(
                 Index_add_token(st.objs, st.index, token, doc_id, counts[token],
                                 importance),
                 counts, todo \ {token}, doc_id, importance)

\* a counter that is not advanced
doc_id_not_advanced(n) == n

\* line 105
doc_id_after(n) == n + 1

\* lines 103-130: the document is kept
IndexDocument ==
    /\ pc = "body"
    /\ cur_html # None
    /\ cur_check.reason = None
    /\ LET doc_id == next_doc_id
           det1 == register_content_hash(detector, cur_html)
           st1 == add_counts([objs |-> objs, index |-> current_index],
                             counts_normal, DOMAIN counts_normal, doc_id, NORMAL)
           st2 == add_counts(st1, counts_important, DOMAIN counts_important,
                             doc_id, BOLD_OR_HEADING)
       IN  /\ next_doc_id' = doc_id_after(next_doc_id)
           /\ detector' = IF cur_check.simhash # None
                          THEN add_doc(det1, cur_check.simhash[1], doc_id)
                          ELSE det1
           /\ doc_id_to_url' = DictPut(doc_id_to_url, doc_id, cur_doc[1].url)
           /\ objs' = st2.objs
           /\ current_index' = st2.index
    /\ pc' = "loop"
    /\ cur_doc' = None
    /\ UNCHANGED <<yielded, file_count, exact_dups_removed, near_dups_removed,
                   partial_files, merge_vars, unit_vars>>

\* lines 132-166: the input is exhausted; the remaining index is written as
\* the last partial if non-empty, and the partials, if any, are merged
EndOfInput ==
    /\ pc = "loop"
    /\ IF Index_len(current_index) > 0
       THEN partial_files' = Append(partial_files,
                                    write_partial_index(objs, current_index))
       ELSE UNCHANGED partial_files
    /\ pc' = IF partial_files' # <<>> THEN "merge" ELSE "done"
    /\ UNCHANGED <<build_vars, merge_vars, unit_vars>>

\* ------------------------------------------------------------------------
\* lib/index.py: the k-way merge of the partial files into letter shards
\* ------------------------------------------------------------------------

\* Posting.from_dict
Posting_from_dict(d) == Posting(d.doc_id, d.tf, d.importance)

\* IndexEntry.from_dict
IndexEntry_from_dict(d) ==
    [token              |-> d.token,
     postings           |-> [i \in 1..Len(d.postings) |->
                                Posting_from_dict(d.postings[i])],
     document_frequency |-> IF "document_frequency" \in DOMAIN d
                            THEN d.document_frequency ELSE 0]

HeapEntry(token, entry, file) == [token |-> token, entry |-> entry, file |-> file]

\* heapq.heappush: the list holds the pushed entry
heappush(h, x) == Append(h, x)

\* the positions heapq.heappop may take: HeapEntry compares by token alone, so
\* any entry whose token no other entry's token is less than
heap_min(h) == {i \in 1..Len(h) : \A j \in 1..Len(h) : ~str_lt(h[j].token, h[i].token)}

heap_remove(h, i) == SubSeq(h, 1, i - 1) \o SubSeq(h, i + 1, Len(h))

\* the line read is pushed and the read position of the file is left where it
\* was, so that the same line is read again
push_entry_to_heap_without_advancing(h, pos, f) ==
    IF pos[f] < Len(partial_files[f])
    THEN LET entry == IndexEntry_from_dict(partial_files[f][pos[f] + 1])
         IN  [heap |-> heappush(h, HeapEntry(entry.token, entry, f)),
              pos  |-> pos]
    ELSE [heap |-> h, pos |-> pos]

\* push_entry_to_heap: the heap and the read positions after reading one line
\* of file f
push_entry_to_heap(h, pos, f) ==
    IF pos[f] < Len(partial_files[f])
    THEN LET entry == IndexEntry_from_dict(partial_files[f][pos[f] + 1])
         IN  [heap |-> heappush(h, HeapEntry(entry.token, entry, f)),
              pos  |-> [pos EXCEPT ![f] = @ + 1]]
    ELSE [heap |-> h, pos |-> pos]

\* IndexEntry.from_dict(json.loads(line)) returns: the line holds the keys
\* from_dict subscripts (a line without one of them raises KeyError)
readable(line) == "token" \in DOMAIN line /\ "postings" \in DOMAIN line

\* push_entry_to_heap raises: file f has a next line and it is not readable
read_fails(pos, f) ==
    /\ pos[f] < Len(partial_files[f])
    /\ ~readable(partial_files[f][pos[f] + 1])

\* lines 223-224 raise: the first line of some file is not readable
seed_fails == \E f \in 1..Len(partial_files) :
                 partial_files[f] # <<>> /\ ~readable(partial_files[f][1])

\* lines 223-224: the heap seeded from the files f..N
RECURSIVE seed_heap(_, _, _)
seed_heap(h, pos, f) ==
    IF f > Len(partial_files) THEN [heap |-> h, pos |-> pos]
    ELSE LET r == push_entry_to_heap(h, pos, f)
         IN  seed_heap(r.heap, r.pos, f + 1)

\* open(path, "w"): the file exists and is empty
open_w(fs, name) == DictPut(fs, name, <<>>)

\* dataclasses.asdict(entry)
asdict(entry) ==
    [token |-> entry.token, postings |-> entry.postings,
     document_frequency |-> entry.document_frequency]

\* lines 214-231: the partials are opened, the heap is seeded, 0.jsonl is opened
MergeStart ==
    /\ pc = "merge"
    /\ ~seed_fails
    /\ LET r == seed_heap(<<>>, [f \in 1..Len(partial_files) |-> 0], 1)
       IN  /\ heap' = r.heap
           /\ files_pos' = r.pos
    /\ current_letter' = Some(48)
    /\ out_file' = Some([name |-> 48, closed |-> FALSE])
    /\ shards' = open_w(shards, 48)
    /\ opened' = Append(opened, 48)
    /\ merged' = None
    /\ pc' = "merge_loop"
    /\ UNCHANGED <<build_vars, unit_vars, partial_files>>

\* lines 233-236: the top of the heap is popped and the next line of its file
\* is pushed
MergePop ==
    /\ pc = "merge_loop"
    /\ heap # <<>>
    /\ \E i \in heap_min(heap) :
          LET r == push_entry_to_heap(heap_remove(heap, i), files_pos, heap[i].file)
          IN  /\ ~read_fails(files_pos, heap[i].file)
              /\ merged' = Some([token |-> heap[i].token, entry |-> heap[i].entry])
              /\ heap' = r.heap
              /\ files_pos' = r.pos
    /\ pc' = "merge_drain"
    /\ UNCHANGED <<build_vars, unit_vars, partial_files, current_letter, out_file, shards,
                   opened>>

\* an inner loop that is never entered
drain_never == FALSE

\* line 240: while heap and heap[0].token == token
drain_more == heap # <<>> /\ \E i \in heap_min(heap) : heap[i].token = merged[1].token

\* lines 240-243: an entry of the same token is popped and merged in
MergeDrain ==
    /\ pc = "merge_drain"
    /\ drain_more
    /\ \E i \in heap_min(heap) :
          LET r == push_entry_to_heap(heap_remove(heap, i), files_pos, heap[i].file)
          IN  /\ ~read_fails(files_pos, heap[i].file)
              /\ merged' = Some([merged[1] EXCEPT
                                    !.entry = IndexEntry_merge(@, heap[i].entry)])
              /\ heap' = r.heap
              /\ files_pos' = r.pos
    /\ UNCHANGED <<pc, build_vars, unit_vars, partial_files, current_letter, out_file, shards,
                   opened>>

\* the letter of the open shard is not recorded
letter_not_recorded(letter) == current_letter

\* line 249
letter_after_switch(letter) == Some(letter)

\* lines 245-259: the shard of the token's letter is opened if it is not the
\* current one, and the merged entry is written to it
MergeWrite ==
    /\ pc = "merge_drain"
    /\ ~drain_more
    /\ LET token  == merged[1].token
           letter == token[1]
           line   == asdict(merged[1].entry)
       IN  IF Some(letter) # current_letter
           THEN /\ current_letter' = letter_after_switch(letter)
                /\ out_file' = Some([name |-> letter, closed |-> FALSE])
                /\ shards' = [open_w(shards, letter) EXCEPT ![letter] = Append(@, line)]
                /\ opened' = Append(opened, letter)
           ELSE /\ shards' = [shards EXCEPT ![out_file[1].name] = Append(@, line)]
                /\ UNCHANGED <<current_letter, out_file, opened>>
    /\ merged' = None
    /\ pc' = "merge_loop"
    /\ UNCHANGED <<build_vars, unit_vars, partial_files, files_pos, heap>>

\* lines 261-262: the heap is empty; the last shard is closed
MergeClose ==
    /\ pc = "merge_loop"
    /\ heap = <<>>
    /\ out_file' = IF out_file # None
                   THEN Some([out_file[1] EXCEPT !.closed = TRUE]) ELSE out_file
    /\ pc' = "done"
    /\ UNCHANGED <<build_vars, unit_vars, partial_files, files_pos, heap, merged,
                   current_letter, shards, opened>>

\* the frame of a step that leaves merge_partial_indexes by an exception
\* raised while a line is read: the ExitStack closes the partial files, and
\* nothing else is done; out_file is left as it is
merge_raise_frame ==
    /\ pc' = "raised"
    /\ UNCHANGED <<build_vars, unit_vars, partial_files, files_pos, merged,
                   current_letter, out_file, shards, opened>>

\* lines 223-224: seeding the heap raises, before 0.jsonl is opened
MergeStartRaise ==
    /\ pc = "merge"
    /\ seed_fails
    /\ UNCHANGED heap
    /\ merge_raise_frame

\* lines 235-236: the top is popped and reading the next line of its file
\* raises
MergePopRaise ==
    /\ pc = "merge_loop"
    /\ heap # <<>>
    /\ \E i \in heap_min(heap) :
          /\ read_fails(files_pos, heap[i].file)
          /\ heap' = heap_remove(heap, i)
    /\ merge_raise_frame

\* lines 241-243: an entry of the same token is popped and merged in, and
\* reading the next line of its file raises
MergeDrainRaise ==
    /\ pc = "merge_drain"
    /\ drain_more
    /\ \E i \in heap_min(heap) :
          /\ read_fails(files_pos, heap[i].file)
          /\ heap' = heap_remove(heap, i)
    /\ merge_raise_frame

NextBuild ==
    \/ \E html \in {None} \cup {Some(h) : h \in HtmlPool} : NextDocument(html)
    \/ SkipNull
    \/ SkipExact
    \/ SkipNear
    \/ IndexDocument
    \/ EndOfInput

NextMerge ==
    \/ MergeStart
    \/ MergePop
    \/ MergeDrain
    \/ MergeWrite
    \/ MergeClose

Next == NextBuild \/ NextMerge

\* build_index: the document loop, then the merge of the partials it wrote
Spec == Init /\ [][Next]_vars

\* ------------------------------------------------------------------------
\* Properties of the document loop
\* ------------------------------------------------------------------------

\* the position in the input stream of the document that received doc_id
accepted_at(doc_id) == doc_id_to_url[doc_id][2]

\* the doc-ids in the postings of a list of entries
posting_doc_ids(entries) ==
    UNION {{entries[i].postings[j].doc_id : j \in 1..Len(entries[i].postings)} :
           i \in 1..Len(entries)}

\* the doc-ids the detector's block indexes hold
detector_doc_ids ==
    UNION {UNION {{detector.block_indexes[i][b][c][2] :
                       c \in 1..Len(detector.block_indexes[i][b])} :
                  b \in DOMAIN detector.block_indexes[i]} :
           i \in 1..detector.num_blocks}

\* C1: doc-ids are dense and in acceptance order: the keys of doc_id_to_url
\* are exactly 0..next_doc_id-1, every doc-id in the in-memory index, in a
\* partial or in the detector is one of them, and a document accepted later
\* in the stream holds a strictly larger doc-id
C1_DenseDocIds ==
    /\ DOMAIN doc_id_to_url = 0..(next_doc_id - 1)
    /\ posting_doc_ids(objs) \subseteq 0..(next_doc_id - 1)
    /\ \A f \in 1..Len(partial_files) :
          posting_doc_ids(partial_files[f]) \subseteq 0..(next_doc_id - 1)
    /\ detector_doc_ids = 0..(next_doc_id - 1)
    /\ \A d1, d2 \in DOMAIN doc_id_to_url :
          d1 < d2 <=> accepted_at(d1) < accepted_at(d2)

\* C1 witness: three documents accepted with a skipped one among them and a
\* partial already offloaded
C1_Witness ==
    /\ next_doc_id = 3
    /\ file_count > next_doc_id
    /\ partial_files # <<>>
    /\ pc = "loop"

\* C2: a step taken on a document that check classifies as a duplicate adds
\* one to the counter of the verdict and leaves the other counter,
\* next_doc_id, doc_id_to_url, the in-memory index and the detector unchanged
C2_DuplicateSkipFrame ==
    [][(pc = "body" /\ cur_html # None /\ cur_check.reason # None) =>
         /\ cur_check.reason = Some("exact") =>
               /\ exact_dups_removed' = exact_dups_removed + 1
               /\ near_dups_removed' = near_dups_removed
         /\ cur_check.reason = Some("near") =>
               /\ near_dups_removed' = near_dups_removed + 1
               /\ exact_dups_removed' = exact_dups_removed
         /\ UNCHANGED <<next_doc_id, doc_id_to_url, current_index, objs,
                        detector>>]_vars

\* C2 witness: both kinds of duplicate were skipped while the in-memory index
\* held entries
C2_Witness ==
    /\ exact_dups_removed >= 1
    /\ near_dups_removed >= 1
    /\ Index_len(current_index) > 0
    /\ pc = "loop"

\* the raw HTML of the documents accepted so far
accepted_html == {yielded[accepted_at(d)] : d \in DOMAIN doc_id_to_url}

\* C3: a document whose HTML is identical to an accepted document's is
\* classified "exact", and a corpus of the same HTML twice ends with one
\* exact duplicate, no near duplicate and one document
C3_ExactBeforeNear ==
    /\ (pc = "body" /\ cur_html # None /\ cur_html \in accepted_html)
          => cur_check.reason = Some("exact")
    /\ (pc = "done" /\ Len(yielded) = 2 /\ yielded[1] # None
           /\ yielded[1] = yielded[2])
          => (exact_dups_removed = 1 /\ near_dups_removed = 0 /\ next_doc_id = 1)

\* C3 witness: the build of a corpus of the same non-empty page twice is done
C3_Witness ==
    /\ pc = "done"
    /\ yielded = <<Some(H0), Some(H0)>>
    /\ exact_dups_removed = 1

\* ------------------------------------------------------------------------
\* merge_partial_indexes on its own, over token-sorted partial files
\* ------------------------------------------------------------------------

t_0 == <<48>>

\* the tokens of the partial files, in ascending order
MergeTokens == <<t_0, t_a, t_ab, t_b>>

MaxPartials == 2

\* the line of token k in partial file f: two postings, the doc-ids of
\* neighbouring files overlapping in one document; the files at even positions
\* carry the document_frequency field that Index.write_to_disk writes
PartialLine(k, f) ==
    LET d == (f - 1) % 2
        postings == <<Posting(d, 1 + d, (k + d) % 3), Posting(d + 1, 2, k % 3)>>
    IN  IF d = 0
        THEN [token |-> MergeTokens[k], postings |-> postings]
        ELSE [token |-> MergeTokens[k], postings |-> postings,
              document_frequency |-> Len(postings)]

\* the partial file f holding the tokens at the positions S
PartialFile(S, f) ==
    LET all == [k \in 1..Len(MergeTokens) |-> PartialLine(k, f)]
        pick(l) == \E k \in S : l.token = MergeTokens[k]
    IN  SelectSeq(all, pick)

InitMerge ==
    /\ pc = "merge"
    /\ BuildIdle
    /\ \E n \in 0..MaxPartials :
          \E S \in [1..n -> SUBSET (1..Len(MergeTokens))] :
              partial_files = [f \in 1..n |-> PartialFile(S[f], f)]
    /\ MergeIdle
    /\ UnitIdle

\* merge_partial_indexes(partial_paths) over any list of partial files
SpecMerge == InitMerge /\ [][NextMerge]_vars

\* the tokens of a file
file_tokens(file) == {file[i].token : i \in 1..Len(file)}

\* the tokens of all partial files
partial_tokens == UNION {file_tokens(partial_files[f]) : f \in 1..Len(partial_files)}

\* the places <<shard, line>> where token t is written
shard_lines_of(t) ==
    {<<c, i>> \in UNION {{<<c2, i2>> : i2 \in 1..Len(shards[c2])} : c2 \in DOMAIN shards} :
        shards[c][i].token = t}

\* the postings <<file, line, posting>> of the partials for (t, doc_id)
contributions(t, doc_id) ==
    {<<f, i, j>> \in UNION {UNION {{<<f2, i2, j2>> :
                                       j2 \in 1..Len(partial_files[f2][i2].postings)} :
                                   i2 \in 1..Len(partial_files[f2])} :
                            f2 \in 1..Len(partial_files)} :
        /\ partial_files[f][i].token = t
        /\ partial_files[f][i].postings[j].doc_id = doc_id}

contributed(x) == partial_files[x[1]][x[2]].postings[x[3]]

\* postings is the merge of the partials' postings of t: the doc-ids are those
\* of the partials, each once and ascending, tf summed and importance the max
is_merge_of(postings, t) ==
    /\ \A j \in 1..(Len(postings) - 1) : postings[j].doc_id < postings[j + 1].doc_id
    /\ \A d \in 0..3 :
          (contributions(t, d) # {}) <=> (\E j \in 1..Len(postings) : postings[j].doc_id = d)
    /\ \A j \in 1..Len(postings) :
          LET from == contributions(t, postings[j].doc_id)
          IN  /\ postings[j].tf = SumFn([x \in from |-> contributed(x).tf], from)
              /\ \E x \in from : postings[j].importance = contributed(x).importance
              /\ \A x \in from : postings[j].importance >= contributed(x).importance

\* C7: when the merge is done, every token of the partials is on exactly one
\* line of the shards, that line holds the merge of the token's postings from
\* every partial, and the shards hold no other token, whichever of the equal
\* heap tops is popped
C7_MergeExactlyOnce ==
    pc = "done" =>
        /\ \A t \in partial_tokens :
              /\ Cardinality(shard_lines_of(t)) = 1
              /\ \A x \in shard_lines_of(t) : is_merge_of(shards[x[1]][x[2]].postings, t)
        /\ \A c \in DOMAIN shards : file_tokens(shards[c]) \subseteq partial_tokens

\* C7 witness: two partials sharing a token were merged, the shared token's
\* line holding the three doc-ids of the two files
C7_Witness ==
    /\ pc = "done"
    /\ Len(partial_files) = 2
    /\ t_ab \in file_tokens(partial_files[1]) \cap file_tokens(partial_files[2])
    /\ t_a \in file_tokens(partial_files[2]) \ file_tokens(partial_files[1])
    /\ \E x \in shard_lines_of(t_ab) : Len(shards[x[1]][x[2]].postings) = 3

\* the tokens of a file are strictly ascending
tokens_ascending(file) ==
    \A i \in 1..(Len(file) - 1) : str_lt(file[i].token, file[i + 1].token)

C9_ShardPartition ==
    /\ \A c \in DOMAIN shards :
          \A i \in 1..Len(shards[c]) : shards[c][i].token[1] = c
    /\ \A i, j \in 1..Len(opened) : opened[i] = opened[j] => i = j

\* C9 witness: a merge wrote a token into the shard opened at the start and
\* then opened two more shards
C9_Witness ==
    /\ pc = "done"
    /\ opened = <<48, 97, 98>>
    /\ Len(shards[48]) = 1
    /\ Len(shards[97]) = 2

\* the leading characters of the merged tokens
leading_chars == {t[1] : t \in partial_tokens}

\* C10: when the merge is done, the shard files are exactly those of the
\* leading characters of the merged tokens
C10_ShardFilesExact == pc = "done" => DOMAIN shards = leading_chars

\* C10 witness: a merge of tokens starting only with a and b is done
C10_Witness ==
    /\ pc = "done"
    /\ leading_chars = {97, 98}

\* ------------------------------------------------------------------------
\* Index and IndexEntry on their own: any sequence of add_token,
\* add_or_update_posting, IndexEntry.merge and Index.merge calls on two
\* indexes and their entries
\* ------------------------------------------------------------------------

MaxOps == 3

\* the (doc_id, tf, importance) arguments of the calls
Calls == {<<0, 1, NORMAL>>, <<1, 2, BOLD_OR_HEADING>>, <<2, 1, TITLE>>,
          <<1, 1, TITLE>>, <<0, 0, BOLD_OR_HEADING>>}

IndexTokens == {t_a, t_b}

InitIndex ==
    /\ pc = "index_ops"
    /\ BuildIdle
    /\ partial_files = <<>>
    /\ MergeIdle
    /\ UnitIdle

\* one delta (tf, importance) recorded for doc_id
record_delta(g, doc_id, tf, importance) ==
    IF doc_id \in DOMAIN g
    THEN [g EXCEPT ![doc_id] = [tf |-> @.tf + tf,
                                importance |-> Max2(@.importance, importance)]]
    ELSE (doc_id :> [tf |-> tf, importance |-> importance]) @@ g

\* the postings k.. recorded as deltas
RECURSIVE record_postings(_, _, _)
record_postings(g, postings, k) ==
    IF k > Len(postings) THEN g
    ELSE record_postings(
             record_delta(g, postings[k].doc_id, postings[k].tf, postings[k].importance),
             postings, k + 1)

index_of(ix) == IF ix = "self" THEN current_index ELSE other_index

unit_frame == UNCHANGED <<pc, yielded, cur_doc, file_count, next_doc_id,
                          exact_dups_removed, near_dups_removed, doc_id_to_url,
                          partial_files, merge_vars, search_out>>

\* index.add_token(token, doc_id, tf, importance) on either index
AddToken(ix, token, call) ==
    /\ pc = "index_ops"
    /\ n_ops < MaxOps
    /\ LET r   == Index_add_token(objs, index_of(ix), token, call[1], call[2], call[3])
           ref == r.index.token_to_entry[token]
       IN  /\ objs' = r.objs
           /\ IF ix = "self"
              THEN current_index' = r.index /\ UNCHANGED other_index
              ELSE other_index' = r.index /\ UNCHANGED current_index
           /\ applied' =
                 IF call[2] <= 0 THEN applied
                 ELSE IF Len(r.objs) > Len(objs)
                 THEN Append(applied, record_delta(<<>>, call[1], call[2], call[3]))
                 ELSE [applied EXCEPT ![ref] = record_delta(@, call[1], call[2], call[3])]
    /\ n_ops' = n_ops + 1
    /\ UNCHANGED <<detector, added, last_check>>
    /\ unit_frame

\* entry.add_or_update_posting(doc_id, tf_delta, importance) on any entry
AddOrUpdatePosting(ref, call) ==
    /\ pc = "index_ops"
    /\ n_ops < MaxOps
    /\ objs' = [objs EXCEPT ![ref] =
                   IndexEntry_add_or_update_posting(@, call[1], call[2], call[3])]
    /\ applied' = [applied EXCEPT ![ref] = record_delta(@, call[1], call[2], call[3])]
    /\ n_ops' = n_ops + 1
    /\ UNCHANGED <<current_index, other_index, detector, added, last_check>>
    /\ unit_frame

\* entry.merge(other) on any two entries
EntryMerge(ref, other) ==
    /\ pc = "index_ops"
    /\ n_ops < MaxOps
    /\ objs' = [objs EXCEPT ![ref] = IndexEntry_merge(@, objs[other])]
    /\ applied' = [applied EXCEPT ![ref] = record_postings(@, objs[other].postings, 1)]
    /\ n_ops' = n_ops + 1
    /\ UNCHANGED <<current_index, other_index, detector, added, last_check>>
    /\ unit_frame

\* index.merge(other), either index into the other
IndexMerge(ix) ==
    /\ pc = "index_ops"
    /\ n_ops < MaxOps
    /\ LET self  == index_of(ix)
           other == index_of(IF ix = "self" THEN "other" ELSE "self")
           r     == Index_merge(objs, self, other)
           gets(ref) == {o \in DOMAIN other.token_to_entry :
                            /\ o \in DOMAIN self.token_to_entry
                            /\ self.token_to_entry[o] = ref}
       IN  /\ objs' = r.objs
           /\ IF ix = "self"
              THEN current_index' = r.index /\ UNCHANGED other_index
              ELSE other_index' = r.index /\ UNCHANGED current_index
           /\ applied' =
                 [ref \in 1..Len(applied) |->
                     IF gets(ref) = {} THEN applied[ref]
                     ELSE LET o == CHOOSE o \in gets(ref) : TRUE
                          IN  record_postings(
                                  applied[ref],
                                  objs[other.token_to_entry[o]].postings, 1)]
    /\ n_ops' = n_ops + 1
    /\ UNCHANGED <<detector, added, last_check>>
    /\ unit_frame

NextIndex ==
    \/ \E ix \in {"self", "other"}, token \in IndexTokens, call \in Calls :
          AddToken(ix, token, call)
    \/ \E ref \in 1..Len(objs), call \in Calls : AddOrUpdatePosting(ref, call)
    \/ \E ref, other \in 1..Len(objs) : EntryMerge(ref, other)
    \/ \E ix \in {"self", "other"} : IndexMerge(ix)

\* any sequence of calls on two indexes and their entries
SpecIndex == InitIndex /\ [][NextIndex]_vars

\* C5: the doc_ids of every IndexEntry's postings are strictly increasing
C5_PostingsStrictlyIncreasing ==
    \A ref \in 1..Len(objs) :
        \A j \in 1..(Len(objs[ref].postings) - 1) :
            objs[ref].postings[j].doc_id < objs[ref].postings[j + 1].doc_id

\* C5 witness: after an Index.merge an entry holds three postings, the one
\* in the middle added last
C5_Witness ==
    /\ n_ops = MaxOps
    /\ \E ref \in 1..Len(objs) :
          /\ Len(objs[ref].postings) = 3
          /\ objs[ref].postings[2].tf = 2

\* the postings of an entry for a doc_id
postings_for(entry, doc_id) ==
    {j \in 1..Len(entry.postings) : entry.postings[j].doc_id = doc_id}

\* every posting holds the sum of the deltas and the largest importance
\* applied for its (entry, doc_id)
totals_match ==
    \A ref \in 1..Len(objs) :
        /\ \A j \in 1..Len(objs[ref].postings) :
              objs[ref].postings[j].doc_id \in DOMAIN applied[ref]
        /\ \A d \in DOMAIN applied[ref] :
              /\ Cardinality(postings_for(objs[ref], d)) = 1
              /\ \A j \in postings_for(objs[ref], d) :
                    /\ objs[ref].postings[j].tf = applied[ref][d].tf
                    /\ objs[ref].postings[j].importance = applied[ref][d].importance

\* no call lowers the importance of a posting
importance_kept ==
    \A ref \in 1..Len(objs) :
        \A j \in 1..Len(objs[ref].postings) :
            \E k \in 1..Len(objs'[ref].postings) :
                /\ objs'[ref].postings[k].doc_id = objs[ref].postings[j].doc_id
                /\ objs'[ref].postings[k].importance >= objs[ref].postings[j].importance

\* C6: for every (entry, doc_id) the posting's tf is the sum of the tf deltas
\* applied and its importance the largest importance applied, and no call
\* lowers a posting's importance
C6_TfSumImportanceMax == []totals_match /\ [][importance_kept]_vars

\* C6 witness: a posting was updated with a lower importance after a higher
\* one, and holds the higher importance and the sum of both deltas
C6_Witness ==
    \E ref \in 1..Len(objs) :
        \E j \in 1..Len(objs[ref].postings) :
            /\ objs[ref].postings[j].doc_id = 1
            /\ objs[ref].postings[j].tf = 3
            /\ objs[ref].postings[j].importance = TITLE
            /\ current_index.entries # <<>>
            /\ other_index.entries # <<>>

\* ------------------------------------------------------------------------
\* DuplicateDetector on its own: any sequence of add_doc,
\* register_content_hash and check calls
\* ------------------------------------------------------------------------

MaxDetectorOps == 3

\* the fingerprint with the bits at the positions S flipped
flip(fp, S) == FromBits([i \in 0..63 |-> IF i \in S THEN 1 - Bit(fp, i) ELSE Bit(fp, i)])

\* the token_counts arguments of check
BagPool == {tokenize(extract_text(h)[1]) : h \in {H0, H1, H2, Hb, Hempty}}

\* the fingerprints passed to add_doc: those of the bags, and the fingerprint
\* of Hb with one bit flipped in each of three blocks, in each of the four
\* blocks, and with four bits flipped in one block
FingerprintPool ==
    {compute_simhash(bag, NUM_BITS) : bag \in BagPool}
        \cup {flip(md5_64(t_b), S) : S \in {{0, 16, 32}, {5, 21, 37, 53}, {0, 1, 2, 3}}}

ContentPool == {H0, Hb}

InitDetector ==
    /\ pc = "detector_ops"
    /\ BuildIdle
    /\ partial_files = <<>>
    /\ MergeIdle
    /\ UnitIdle

detector_frame == UNCHANGED <<pc, yielded, cur_doc, file_count, next_doc_id,
                              exact_dups_removed, near_dups_removed, doc_id_to_url,
                              objs, current_index, partial_files, merge_vars,
                              other_index, applied, search_out>>

\* detector.add_doc(simhash, doc_id)
DetectorAddDoc(simhash) ==
    /\ pc = "detector_ops"
    /\ n_ops < MaxDetectorOps
    /\ detector' = add_doc(detector, simhash, n_ops)
    /\ added' = added \cup {simhash}
    /\ last_check' = None
    /\ n_ops' = n_ops + 1
    /\ detector_frame

\* detector.register_content_hash(content)
DetectorRegister(content) ==
    /\ pc = "detector_ops"
    /\ n_ops < MaxDetectorOps
    /\ detector' = register_content_hash(detector, content)
    /\ last_check' = None
    /\ n_ops' = n_ops + 1
    /\ UNCHANGED added
    /\ detector_frame

\* detector.check(content, token_counts)
DetectorCheck(content, token_counts) ==
    /\ pc = "detector_ops"
    /\ n_ops < MaxDetectorOps
    /\ last_check' = Some([content |-> content, token_counts |-> token_counts,
                           result |-> check(detector, content, token_counts)])
    /\ n_ops' = n_ops + 1
    /\ UNCHANGED <<detector, added>>
    /\ detector_frame

NextDetector ==
    \/ \E simhash \in FingerprintPool : DetectorAddDoc(simhash)
    \/ \E content \in {None} \cup {Some(c) : c \in ContentPool} :
          DetectorRegister(content)
    \/ \E content \in {None} \cup {Some(c) : c \in ContentPool},
          token_counts \in {None} \cup {Some(bag) : bag \in BagPool} :
          DetectorCheck(content, token_counts)

\* any sequence of calls on one detector
SpecDetector == InitDetector /\ [][NextDetector]_vars

\* the number of bit positions at which two fingerprints differ
differing_bits(a, b) == Cardinality({i \in 0..63 : Bit(a, i) # Bit(b, i)})

\* the latest check had content and token_counts, its content hash was not
\* registered, and its fingerprint is within 3 bits of one passed to add_doc
near_a_stored_fingerprint ==
    /\ last_check # None
    /\ last_check[1].content # None
    /\ last_check[1].token_counts # None
    /\ content_hash(last_check[1].content[1]) \notin detector.seen_content_hashes
    /\ \E fp \in added :
          differing_bits(fp, compute_simhash(last_check[1].token_counts[1], NUM_BITS)) <= 3

\* C4: a check whose content hash is not registered and whose fingerprint is
\* within Hamming distance 3 of a fingerprint passed to add_doc at any
\* earlier time returns "near"
C4_DedupMonotonicity ==
    near_a_stored_fingerprint => last_check[1].result.reason = Some("near")

\* C4 witness: a check returned "near" for a fingerprint that shares exactly
\* one block with the only stored fingerprint within distance 3, another
\* add_doc call having come in between
C4_Witness ==
    /\ near_a_stored_fingerprint
    /\ n_ops = MaxDetectorOps
    /\ Cardinality(added) = 2
    /\ Cardinality({fp \in added :
           differing_bits(fp, compute_simhash(last_check[1].token_counts[1],
                                              NUM_BITS)) <= 3}) = 1
    /\ LET fp == compute_simhash(last_check[1].token_counts[1], NUM_BITS)
       IN  /\ \A other \in added : fp # other
           /\ \E other \in added :
                 /\ differing_bits(fp, other) = 3
                 /\ Cardinality({i \in 1..4 :
                        block_values(fp, NUM_BITS, 4)[i]
                            = block_values(other, NUM_BITS, 4)[i]}) = 1

\* ------------------------------------------------------------------------
\* Properties of the shard lines
\* ------------------------------------------------------------------------

\* C11: every line written to a shard carries a document_frequency equal to
\* the number of its postings, whatever the partial lines carried
C11_DfEqualsPostings ==
    \A c \in DOMAIN shards :
        \A i \in 1..Len(shards[c]) :
            shards[c][i].document_frequency = Len(shards[c][i].postings)

\* C11 witness: a merge of one partial whose lines carry no
\* document_frequency field is done and wrote a line
C11_Witness ==
    /\ pc = "done"
    /\ Len(partial_files) = 1
    /\ \E c \in DOMAIN shards : shards[c] # <<>>
    /\ \A i \in 1..Len(partial_files[1]) :
          "document_frequency" \notin DOMAIN partial_files[1][i]

\* ------------------------------------------------------------------------
\* Index.merge laws
\* ------------------------------------------------------------------------

\* the (token, doc_id) -> (tf, importance) mapping of an index, as the set of
\* its <<token, doc_id, tf, importance>>
mapping_of(heap_objs, index) ==
    UNION {{<<heap_objs[index.entries[i]].token,
              heap_objs[index.entries[i]].postings[j].doc_id,
              heap_objs[index.entries[i]].postings[j].tf,
              heap_objs[index.entries[i]].postings[j].importance>> :
                j \in 1..Len(heap_objs[index.entries[i]].postings)} :
           i \in 1..Len(index.entries)}

\* the mapping of self after self.merge(other)
merged_mapping(self, other) ==
    LET r == Index_merge(objs, self, other)
    IN  mapping_of(r.objs, r.index)

\* C12: for the two indexes of any reachable state, merging an empty index
\* into either leaves its mapping unchanged, and merging either into the
\* other gives the same mapping
C12_MergeLaws ==
    /\ merged_mapping(current_index, Index_new) = mapping_of(objs, current_index)
    /\ merged_mapping(other_index, Index_new) = mapping_of(objs, other_index)
    /\ merged_mapping(current_index, other_index)
          = merged_mapping(other_index, current_index)

\* C12 witness: the two indexes hold different postings for a shared
\* (token, doc_id) and one holds a token the other lacks
C12_Witness ==
    /\ \E x \in mapping_of(objs, current_index), y \in mapping_of(objs, other_index) :
          x[1] = y[1] /\ x[2] = y[2] /\ x[3] # y[3] /\ x[4] # y[4]
    /\ DOMAIN current_index.token_to_entry # DOMAIN other_index.token_to_entry
    /\ merged_mapping(current_index, other_index) # mapping_of(objs, current_index)

\* ------------------------------------------------------------------------
\* boolean_search.py.  A call either returns a value or raises; a Python
\* tuple is tagged as such, so that reading an attribute of it can be told
\* from reading an attribute of an IndexEntry.
\* ------------------------------------------------------------------------

returned(value) == [raised |-> None, value |-> value]

raised(exception) == [raised |-> Some(exception), value |-> None]

pytuple(items) == [type |-> "tuple", items |-> items]

\* whether obj.postings can be read
has_postings(obj) == "postings" \in DOMAIN obj

AND == "AND"

OR == "OR"

\* fetch_from_index: the scan of the shard's lines from line k on
RECURSIVE fetch_scan(_, _, _)
fetch_scan(file, token, k) ==
    IF k > Len(file) THEN pytuple(<<IndexEntry(token), 0>>)
    ELSE LET entry == IndexEntry_from_dict(file[k])
         IN  IF entry.token = token
             THEN pytuple(<<IndexEntry_calculate_document_frequency(entry), None>>)
             ELSE fetch_scan(file, token, k + 1)

\* fetch_from_index(token) against the files fs of FINAL_INDEX_DIR
fetch_from_index(fs, token) ==
    IF token[1] \notin DOMAIN fs THEN raised("FileNotFoundError")
    ELSE returned(fetch_scan(fs[token[1]], token, 1))

\* {p.doc_id for p in postings}
doc_id_set(postings) == {postings[j].doc_id : j \in 1..Len(postings)}

\* sorted(shared): the ascending list of a set of ints
RECURSIVE sorted_ints(_)
sorted_ints(S) ==
    IF S = {} THEN <<>>
    ELSE LET least == CHOOSE x \in S : \A y \in S : x <= y
         IN  <<least>> \o sorted_ints(S \ {least})

\* merge_postings
merge_postings(postings_lists, search_type) ==
    IF postings_lists = <<>> THEN <<>>
    ELSE LET doc_sets == [i \in 1..Len(postings_lists) |-> doc_id_set(postings_lists[i])]
         IN  IF search_type = AND /\ \E i \in 1..Len(doc_sets) : doc_sets[i] = {}
             THEN <<>>
             ELSE IF search_type = AND
             THEN sorted_ints({d \in doc_sets[1] : \A i \in 1..Len(doc_sets) : d \in doc_sets[i]})
             ELSE IF search_type = OR
             THEN sorted_ints(UNION {doc_sets[i] : i \in 1..Len(doc_sets)})
             ELSE <<>>

\* sorted(counts.keys()): the ascending list of a set of str
RECURSIVE sorted_strs(_)
sorted_strs(S) ==
    IF S = {} THEN <<>>
    ELSE LET least == CHOOSE x \in S : \A y \in S : ~str_lt(y, x)
         IN  <<least>> \o sorted_strs(S \ {least})

\* process_query
process_query(raw_query) ==
    LET counts == tokenize(raw_query)
    IN  IF DOMAIN counts = {} THEN <<>> ELSE sorted_strs(DOMAIN counts)

\* importance_weight = 0.5: scores are counted in halves, so that a score of
\* 2.0 is 4 halves
halves(x) == 2 * x

importance_weight_halves == 1

\* a contribution that leaves the importance out
RECURSIVE posting_score_tf_only(_, _, _)
posting_score_tf_only(postings, doc_id, j) ==
    IF j > Len(postings) THEN 0
    ELSE IF postings[j].doc_id = doc_id THEN halves(postings[j].tf)
    ELSE posting_score_tf_only(postings, doc_id, j + 1)

\* the inner loop of score_doc: the contribution of the first posting of
\* doc_id from position j on, in halves
RECURSIVE posting_score(_, _, _)
posting_score(postings, doc_id, j) ==
    IF j > Len(postings) THEN 0
    ELSE IF postings[j].doc_id = doc_id
    THEN halves(postings[j].tf) + importance_weight_halves * postings[j].importance
    ELSE posting_score(postings, doc_id, j + 1)

\* score_doc, in halves
RECURSIVE score_doc_from(_, _, _)
score_doc_from(doc_id, token_entries, k) ==
    IF k > Len(token_entries) THEN 0
    ELSE posting_score(token_entries[k].postings, doc_id, 1)
             + score_doc_from(doc_id, token_entries, k + 1)

score_doc(doc_id, token_entries) == score_doc_from(doc_id, token_entries, 1)

\* list.sort(key=lambda x: x[1], reverse=True): a stable sort, so x is put
\* behind every element whose score is not less than its own
RECURSIVE sort_by_score_desc(_)
sort_by_score_desc(results) ==
    IF results = <<>> THEN <<>>
    ELSE LET front == sort_by_score_desc(SubSeq(results, 1, Len(results) - 1))
             x     == results[Len(results)]
             i     == Cardinality({j \in 1..Len(front) : front[j][2] >= x[2]})
         IN  list_insert(front, i, x)

\* lines 105-117 of search: the candidates are scored, looked up in the
\* document mapping and sorted
rank(doc_mapping, matching_doc_ids, token_entries) ==
    IF \E i \in 1..Len(matching_doc_ids) : matching_doc_ids[i] \notin DOMAIN doc_mapping
    THEN raised("KeyError")
    ELSE returned(sort_by_score_desc(
             [i \in 1..Len(matching_doc_ids) |->
                 <<doc_mapping[matching_doc_ids[i]],
                   score_doc(matching_doc_ids[i], token_entries)>>]))

\* lines 90-100 of search: the loop over the tokens from position k on
RECURSIVE search_from(_, _, _, _, _, _)
search_from(fs, doc_mapping, tokens, search_type, token_entries, k) ==
    IF k > Len(tokens)
    THEN IF token_entries = <<>> THEN returned(<<>>)
         ELSE LET postings_lists == [i \in 1..Len(token_entries) |->
                                        token_entries[i].postings]
                  matching_doc_ids == merge_postings(postings_lists, search_type)
              IN  IF matching_doc_ids = <<>> THEN returned(<<>>)
                  ELSE rank(doc_mapping, matching_doc_ids, token_entries)
    ELSE LET fetched == fetch_from_index(fs, tokens[k])
         IN  IF fetched.raised # None THEN fetched
             ELSE LET entry == fetched.value
                  IN  IF ~has_postings(entry) THEN raised("AttributeError")
                      ELSE IF entry.postings = <<>>
                      THEN IF search_type = AND THEN returned(<<>>)
                           ELSE search_from(fs, doc_mapping, tokens, search_type,
                                            token_entries, k + 1)
                      ELSE search_from(fs, doc_mapping, tokens, search_type,
                                       Append(token_entries, entry), k + 1)

\* search(query, search_type)
search(fs, doc_mapping, query, search_type) ==
    LET tokens == process_query(query)
    IN  IF tokens = <<>> THEN returned(<<>>)
        ELSE search_from(fs, doc_mapping, tokens, search_type, <<>>, 1)

\* the lines main prints for the results of one search, numbered from
\* output_num on: (number, URL, score)
result_lines(results, output_num) ==
    [i \in 1..Len(results) |-> <<output_num + i - 1, results[i][1], results[i][2]>>]

\* main, lines 122-126: the words k.. of query.split() are searched one by
\* one; an exception raised by a search ends the program after the lines
\* printed so far
RECURSIVE main_from(_, _, _, _, _)
main_from(fs, doc_mapping, words, k, printed) ==
    IF k > Len(words) THEN [printed |-> printed, raised |-> None]
    ELSE LET results == search(fs, doc_mapping, <<words[k]>>, AND)
         IN  IF results.raised # None
             THEN [printed |-> printed, raised |-> results.raised]
             ELSE main_from(fs, doc_mapping, words, k + 1,
                            printed \o result_lines(results.value, Len(printed) + 1))

\* main(args), args[0] being the query: what it prints and how it ends
main(fs, doc_mapping, query) == main_from(fs, doc_mapping, query, 1, <<>>)

\* ------------------------------------------------------------------------
\* Queries on their own, against final directories as the merge leaves them
\* ------------------------------------------------------------------------

SearchTokens == <<t_a, t_ab, t_b>>

\* the postings of the k-th token in the final index
ShardPostings(k) ==
    CASE k = 1 -> <<Posting(0, 1, NORMAL), Posting(1, 2, TITLE)>>
      [] k = 2 -> <<Posting(0, 1, NORMAL), Posting(1, 1, NORMAL),
                    Posting(2, 1, BOLD_OR_HEADING)>>
      [] OTHER -> <<Posting(2, 3, NORMAL)>>

ShardLine(k) ==
    [token |-> SearchTokens[k], postings |-> ShardPostings(k),
     document_frequency |-> Len(ShardPostings(k))]

\* the final directory holding the tokens at the positions S: 0.jsonl, and
\* one file per leading letter of a token
FinalDir(S) ==
    LET all == [k \in 1..Len(SearchTokens) |-> ShardLine(k)]
        of_letter(c) == SelectSeq(all, LAMBDA l : l.token[1] = c
                                                  /\ \E k \in S : l.token = SearchTokens[k])
    IN  [c \in {48} \cup {SearchTokens[k][1] : k \in S} |-> of_letter(c)]

\* the raw queries: empty, punctuation only, one word, two words, a word of
\* a letter that has no shard, an upper-case word
QueryPool == {<<>>, <<w_dash>>, <<t_a>>, <<t_ab>>, <<t_b>>, <<t_ab, t_a>>,
              <<t_a, t_b>>, <<t_cq>>, <<w_A>>}

\* the entries handed to merge_postings and score_doc
EntryPool == {IndexEntry_from_dict(ShardLine(k)) : k \in 1..Len(SearchTokens)}
                 \cup {IndexEntry(t_z)}

EntryLists == {<<>>} \cup {<<e>> : e \in EntryPool}
                  \cup {<<e1, e2>> : e1 \in EntryPool, e2 \in EntryPool}

InitSearch ==
    /\ pc = "search_ops"
    /\ yielded = <<>>
    /\ cur_doc = None
    /\ file_count = 0
    /\ next_doc_id = 3
    /\ exact_dups_removed = 0
    /\ near_dups_removed = 0
    /\ doc_id_to_url = [d \in 0..2 |-> <<"url", d + 1>>]
    /\ detector = DuplicateDetector(HAMMING_K)
    /\ objs = <<>>
    /\ current_index = Index_new
    /\ partial_files = <<>>
    /\ files_pos = <<>>
    /\ heap = <<>>
    /\ merged = None
    /\ current_letter = None
    /\ out_file = None
    /\ \E S \in SUBSET (1..Len(SearchTokens)) : shards = FinalDir(S)
    /\ opened = <<>>
    /\ UnitIdle

search_frame == UNCHANGED <<pc, build_vars, partial_files, merge_vars, other_index,
                            applied, n_ops, added, last_check>>

\* search(query, search_type)
Search(query, search_type) ==
    /\ pc = "search_ops"
    /\ search_out' = Some([op |-> "search", query |-> query, search_type |-> search_type,
                           out |-> search(shards, doc_id_to_url, query, search_type)])
    /\ search_frame

\* merge_postings(postings_lists, search_type)
MergePostings(entries, search_type) ==
    /\ pc = "search_ops"
    /\ search_out' = Some([op |-> "merge_postings", entries |-> entries,
                           search_type |-> search_type,
                           out |-> merge_postings(
                                       [i \in 1..Len(entries) |-> entries[i].postings],
                                       search_type)])
    /\ search_frame

\* python boolean_search.py <query>
Main(query) ==
    /\ pc = "search_ops"
    /\ search_out' = Some([op |-> "main", query |-> query,
                           out |-> main(shards, doc_id_to_url, query)])
    /\ search_frame

\* score_doc(doc_id, token_entries)
ScoreDoc(doc_id, entries) ==
    /\ pc = "search_ops"
    /\ search_out' = Some([op |-> "score_doc", doc_id |-> doc_id, entries |-> entries,
                           out |-> score_doc(doc_id, entries)])
    /\ search_frame

NextSearch ==
    \/ \E query \in QueryPool, search_type \in {AND, OR} : Search(query, search_type)
    \/ \E entries \in EntryLists, search_type \in {AND, OR} :
          MergePostings(entries, search_type)
    \/ \E doc_id \in 0..3, entries \in EntryLists : ScoreDoc(doc_id, entries)
    \/ \E query \in QueryPool : Main(query)

\* any sequence of query calls against a final directory
SpecSearch == InitSearch /\ [][NextSearch]_vars

\* ------------------------------------------------------------------------
\* Properties of the queries
\* ------------------------------------------------------------------------

\* the doc_ids of token in the final directory
indexed_docs(token) ==
    UNION {UNION {doc_id_set(shards[c][i].postings) :
                     i \in {j \in 1..Len(shards[c]) : shards[c][j].token = token}} :
           c \in DOMAIN shards}

\* the documents a query is to return: those of every token with AND, those
\* of some token with OR
candidates(doc_sets, search_type) ==
    IF doc_sets = {} THEN {}
    ELSE IF search_type = AND
    THEN {d \in UNION doc_sets : \A ds \in doc_sets : d \in ds}
    ELSE UNION doc_sets

\* the doc_ids of the results of a query, read back from their URLs
result_docs(results) ==
    {d \in DOMAIN doc_id_to_url : \E i \in 1..Len(results) :
        results[i][1] = doc_id_to_url[d]}

\* the shard file of every token of the query exists
shards_exist(query) == \A t \in DOMAIN tokenize(query) : t[1] \in DOMAIN shards

\* C13: a query whose tokens' shard files exist returns exactly the documents
\* in the postings of every query token with AND and of at least one query
\* token with OR, and merge_postings returns exactly those doc_ids in
\* ascending order
C13_CandidateSet ==
    search_out # None =>
        LET call == search_out[1]
        IN  /\ (call.op = "search" /\ shards_exist(call.query)) =>
                  /\ call.out.raised = None
                  /\ result_docs(call.out.value)
                        = candidates({indexed_docs(t) : t \in DOMAIN tokenize(call.query)},
                                     call.search_type)
            /\ call.op = "merge_postings" =>
                  /\ \A i \in 1..(Len(call.out) - 1) : call.out[i] < call.out[i + 1]
                  /\ {call.out[i] : i \in 1..Len(call.out)}
                        = candidates({doc_id_set(call.entries[i].postings) :
                                         i \in 1..Len(call.entries)},
                                     call.search_type)

\* C13 witness: an AND query of two indexed tokens sharing documents was run
C13_Witness ==
    /\ search_out # None
    /\ search_out[1].op = "search"
    /\ search_out[1].search_type = AND
    /\ search_out[1].query = <<t_ab, t_a>>
    /\ indexed_docs(t_a) \cap indexed_docs(t_ab) # {}

\* the doc_id a result's URL stands for
doc_of(result) == CHOOSE d \in DOMAIN doc_id_to_url : doc_id_to_url[d] = result[1]

\* the results are in descending order of score, those of equal score in
\* ascending order of doc_id
ranked(results) ==
    \A i, j \in 1..Len(results) :
        i < j => \/ results[i][2] > results[j][2]
                 \/ /\ results[i][2] = results[j][2]
                    /\ doc_of(results[i]) < doc_of(results[j])

\* C14: a query whose tokens' shard files exist returns its results in
\* descending order of score, equal scores in ascending order of doc_id
C14_RankingOrder ==
    (search_out # None /\ search_out[1].op = "search"
        /\ shards_exist(search_out[1].query)) =>
        /\ search_out[1].out.raised = None
        /\ ranked(search_out[1].out.value)

\* C14 witness: a query was run whose token occurs in two documents of equal
\* score and in a third of a higher score
C14_Witness ==
    /\ search_out # None
    /\ search_out[1].op = "search"
    /\ search_out[1].query = <<t_ab>>
    /\ indexed_docs(t_ab) = {0, 1, 2}

\* tf + 0.5 * importance of the entry's posting for doc_id, in halves; zero
\* if the entry has none
contribution(entry, doc_id) ==
    IF doc_id \in doc_id_set(entry.postings)
    THEN LET p == CHOOSE q \in {entry.postings[j] : j \in 1..Len(entry.postings)} :
                      q.doc_id = doc_id
         IN  2 * p.tf + p.importance
    ELSE 0

\* the entry of "a" after indexing one document whose text is "A a"
entry_of_A_a ==
    LET counts == tokenize(<<w_A, t_a>>)
    IN  Index_add_token(<<>>, Index_new, t_a, 0, counts[t_a], NORMAL).objs[1]

\* C15: score_doc returns the sum over the entries of tf + 0.5 * importance
\* of the entry's posting for the document, nothing for an entry without
\* one, and 2.0 for a document "A a" and the entry of "a"
C15_ScoreDoc ==
    /\ (search_out # None /\ search_out[1].op = "score_doc") =>
          LET call == search_out[1]
          IN  call.out = SumFn([k \in 1..Len(call.entries) |->
                                   contribution(call.entries[k], call.doc_id)],
                               1..Len(call.entries))
    /\ score_doc(0, <<entry_of_A_a>>) = 4

\* C15 witness: score_doc was called with two entries, one holding the
\* document with importance TITLE and one not holding it
C15_Witness ==
    /\ search_out # None
    /\ search_out[1].op = "score_doc"
    /\ search_out[1].doc_id = 1
    /\ search_out[1].entries = <<IndexEntry_from_dict(ShardLine(1)),
                                 IndexEntry_from_dict(ShardLine(3))>>
    /\ search_out[1].out = 6

\* C16: a query with a token whose shard file does not exist raises nothing
\* and returns the documents of the remaining tokens' postings with OR, and
\* no document with AND
C16_MissingShard ==
    (search_out # None /\ search_out[1].op = "search"
        /\ ~shards_exist(search_out[1].query)) =>
        /\ search_out[1].out.raised = None
        /\ result_docs(search_out[1].out.value)
              = IF search_out[1].search_type = AND THEN {}
                ELSE UNION {indexed_docs(t) : t \in DOMAIN tokenize(search_out[1].query)}

\* C16 witness: a one-word query was run whose letter has no shard file
C16_Witness ==
    /\ search_out # None
    /\ search_out[1].op = "search"
    /\ search_out[1].query = <<t_cq>>
    /\ 99 \notin DOMAIN shards
    /\ search_out[1].out.raised = Some("FileNotFoundError")

\* ------------------------------------------------------------------------
\* Properties of the postings the builder writes
\* ------------------------------------------------------------------------

\* the HTML of the document that received doc_id
html_of(doc_id) == yielded[accepted_at(doc_id)][1]

\* the tokens of the elements of html whose tag is in tags
tokens_under(html, tags) ==
    DOMAIN tokenize(concat_text(SelectSeq(html, LAMBDA e : e.tag \in tags)))

\* the highest tier under which token occurs in html
highest_tier(html, token) ==
    IF token \in tokens_under(html, {"title"}) THEN TITLE
    ELSE IF token \in tokens_under(html, IMPORTANT_TAGS) THEN BOLD_OR_HEADING
    ELSE NORMAL

\* the <<token, posting>> pairs of the in-memory index and of the partials
built_postings ==
    UNION {{<<objs[r].token, objs[r].postings[j]>> : j \in 1..Len(objs[r].postings)} :
           r \in 1..Len(objs)}
        \cup UNION {UNION {{<<partial_files[f][i].token, partial_files[f][i].postings[j]>> :
                               j \in 1..Len(partial_files[f][i].postings)} :
                           i \in 1..Len(partial_files[f])} :
                    f \in 1..Len(partial_files)}

\* C17: every built posting has the highest tier under which its token
\* occurs in its document as importance, and the token's count in the body
\* text plus its count in the important text as tf
C17_ImportanceTiers ==
    \A x \in built_postings :
        LET html == html_of(x[2].doc_id)
        IN  /\ x[2].importance = highest_tier(html, x[1])
            /\ x[2].tf = DictGet(tokenize(extract_text(html)[1]), x[1], 0)
                            + DictGet(tokenize(extract_text(html)[2]), x[1], 0)

\* C17 witness: a document with a token in its title was indexed
C17_Witness ==
    /\ pc = "loop"
    /\ next_doc_id = 1
    /\ yielded = <<Some(H0)>>
    /\ \E x \in built_postings : x[1] = t_a /\ x[2].doc_id = 0

\* the positions in the stream of the documents whose content is null or the
\* empty string
empty_payloads == {i \in 1..Len(yielded) : yielded[i] = None \/ yielded[i] = Some(Hempty)}

\* C18: a document whose content is null or empty receives no doc-id and no
\* entry in the mapping, leaves no content hash in the detector, and is not
\* counted as a duplicate: once the documents yielded are all processed, the
\* kept ones and the two duplicate counters add up to the other documents
C18_EmptyPayloadSkipped ==
    /\ \A d \in DOMAIN doc_id_to_url : accepted_at(d) \notin empty_payloads
    /\ content_hash(Hempty) \notin detector.seen_content_hashes
    /\ pc = "loop" =>
          next_doc_id + exact_dups_removed + near_dups_removed
              = Len(yielded) - Cardinality(empty_payloads)

\* C18 witness: a null document and an empty document were processed
C18_Witness ==
    /\ pc = "loop"
    /\ Len(yielded) = 2
    /\ yielded[1] = None
    /\ yielded[2] = Some(Hempty)

\* ------------------------------------------------------------------------
\* code/index_io.py: the partial index file and its round trip
\* ------------------------------------------------------------------------

\* Python values handed to json.dump: an int, a str, a list, and a dict as its
\* (key, value) pairs in insertion order
py_int(n) == [type |-> "int", v |-> n]

py_str(s) == [type |-> "str", v |-> s]

py_list(items) == [type |-> "list", v |-> items]

py_dict(pairs) == [type |-> "dict", v |-> pairs]

\* the lexemes of a JSON text
punct(c) == [lex |-> "punct", v |-> c]

string_lit(s) == [lex |-> "string", v |-> s]

number_lit(digits) == [lex |-> "number", v |-> digits]

is_punct(l, c) == l.lex = "punct" /\ l.v = c

\* the decimal digits of a non-negative int, as code points
RECURSIVE dec(_)
dec(n) == IF n < 10 THEN <<48 + n>> ELSE Append(dec(n \div 10), 48 + (n % 10))

\* the int written by a sequence of decimal digits
RECURSIVE int_of(_)
int_of(digits) ==
    IF Len(digits) = 1 THEN digits[1] - 48
    ELSE 10 * int_of(SubSeq(digits, 1, Len(digits) - 1)) + (digits[Len(digits)] - 48)

\* json.dump(value, f, separators=(",", ":"), ensure_ascii=False): the text
RECURSIVE json_dump(_)
RECURSIVE dump_items(_, _)
RECURSIVE dump_members(_, _)
json_dump(value) ==
    CASE value.type = "int"  -> <<number_lit(dec(value.v))>>
      [] value.type = "str"  -> <<string_lit(value.v)>>
      [] value.type = "list" -> <<punct("[")>> \o dump_items(value.v, 1) \o <<punct("]")>>
      [] value.type = "dict" -> <<punct("{")>> \o dump_members(value.v, 1) \o <<punct("}")>>

dump_items(items, i) ==
    IF i > Len(items) THEN <<>>
    ELSE (IF i > 1 THEN <<punct(",")>> ELSE <<>>)
             \o json_dump(items[i]) \o dump_items(items, i + 1)

dump_members(pairs, i) ==
    IF i > Len(pairs) THEN <<>>
    ELSE (IF i > 1 THEN <<punct(",")>> ELSE <<>>)
             \o <<string_lit(pairs[i][1]), punct(":")>>
             \o json_dump(pairs[i][2]) \o dump_members(pairs, i + 1)

\* json.load: the value starting at lexeme i and the position after it; an
\* object is loaded as a dict (a later duplicate key replaces the earlier one),
\* an array as a list
RECURSIVE parse_value(_, _)
RECURSIVE parse_items(_, _, _)
RECURSIVE parse_members(_, _, _)
parse_value(text, i) ==
    CASE text[i].lex = "number" -> [value |-> int_of(text[i].v), next |-> i + 1]
      [] text[i].lex = "string" -> [value |-> text[i].v, next |-> i + 1]
      [] is_punct(text[i], "[") ->
            IF is_punct(text[i + 1], "]") THEN [value |-> <<>>, next |-> i + 2]
            ELSE parse_items(text, i + 1, <<>>)
      [] is_punct(text[i], "{") ->
            IF is_punct(text[i + 1], "}") THEN [value |-> EmptyDict, next |-> i + 2]
            ELSE parse_members(text, i + 1, EmptyDict)

parse_items(text, i, acc) ==
    LET r == parse_value(text, i)
    IN  IF is_punct(text[r.next], ",")
        THEN parse_items(text, r.next + 1, Append(acc, r.value))
        ELSE [value |-> Append(acc, r.value), next |-> r.next + 1]

parse_members(text, i, acc) ==
    LET r == parse_value(text, i + 2)
    IN  IF is_punct(text[r.next], ",")
        THEN parse_members(text, r.next + 1, DictPut(acc, text[i].v, r.value))
        ELSE [value |-> DictPut(acc, text[i].v, r.value), next |-> r.next + 1]

json_load(text) == parse_value(text, 1).value

\* _posting_to_dict
posting_to_dict(p) ==
    py_dict(<< <<"doc_id", py_int(p.doc_id)>>,
               <<"tf", py_int(p.tf)>>,
               <<"importance", py_int(p.importance)>> >>)

\* _entry_to_dict, with the postings as dicts
entry_to_dict_data(entry) ==
    py_dict(<< <<"token", py_str(entry.token)>>,
               <<"postings", py_list([i \in 1..Len(entry.postings) |->
                                         posting_to_dict(entry.postings[i])])>> >>)

\* write_partial_index: the text of the file written for an index
write_partial_index_text(entry_objs, index) ==
    json_dump(py_dict(<< <<"entries",
                           py_list([i \in 1..Len(index.entries) |->
                                       entry_to_dict_data(entry_objs[index.entries[i]])])>> >>))

\* the posting keeps the tf and drops the importance
dict_to_posting_without_importance(d) == Posting(d["doc_id"], d["tf"], NORMAL)

\* _dict_to_posting
dict_to_posting(d) ==
    Posting(d["doc_id"], d["tf"], DictGet(d, "importance", 0))

\* _dict_to_entry
dict_to_entry(d) ==
    [IndexEntry(d["token"]) EXCEPT
        !.postings = [i \in 1..Len(d["postings"]) |-> dict_to_posting(d["postings"][i])]]

\* list.sort(key=lambda x: x.token) of a list of entry references: stable
RECURSIVE sort_by_token(_, _)
sort_by_token(entry_objs, refs) ==
    IF refs = <<>> THEN <<>>
    ELSE LET front == sort_by_token(entry_objs, SubSeq(refs, 1, Len(refs) - 1))
             x     == refs[Len(refs)]
             i     == Cardinality({j \in 1..Len(front) :
                          ~str_lt(entry_objs[x].token, entry_objs[front[j]].token)})
         IN  list_insert(front, i, x)

\* the Index built from the entries read, objects allocated in file order
index_of_entries(read_entries) ==
    [objs  |-> read_entries,
     index |-> [entries        |-> sort_by_token(read_entries,
                                                 [i \in 1..Len(read_entries) |-> i]),
                token_to_entry |-> [t \in {read_entries[i].token :
                                               i \in 1..Len(read_entries)} |->
                                       CHOOSE i \in 1..Len(read_entries) :
                                           /\ read_entries[i].token = t
                                           /\ \A j \in (i + 1)..Len(read_entries) :
                                                  read_entries[j].token # t]]]

\* code/index_io.py read_partial_index
read_partial_index(text) ==
    LET data == json_load(text)
    IN  index_of_entries([i \in 1..Len(data["entries"]) |->
                             dict_to_entry(data["entries"][i])])

\* lib/index.py read_partial_index
read_partial_index_lib(text) ==
    LET data == json_load(text)
    IN  index_of_entries([i \in 1..Len(data["entries"]) |->
                             IndexEntry_from_dict(data["entries"][i])])

\* the index read back has the tokens of the index written, in the same order,
\* and for each token the same postings
same_entries(read, index) ==
    /\ entry_tokens(read.objs, read.index.entries) = entry_tokens(objs, index.entries)
    /\ \A i \in 1..Len(index.entries) :
           read.objs[read.index.entries[i]].postings = objs[index.entries[i]].postings

partial_doc_ids(file) ==
    UNION {{file[i].postings[j].doc_id : j \in 1..Len(file[i].postings)} :
              i \in 1..Len(file)}

\* the partial indexes written by a spill inside the loop, as positions of
\* partial_files: all of them while the loop runs, all but the one written at
\* the end of input afterwards
loop_spills ==
    IF pc \in {"loop", "body"} THEN 1..Len(partial_files)
    ELSE 1..(Len(partial_files) - 1)

partials_bounded ==
    \A k \in 1..Len(partial_files) :
        /\ partial_doc_ids(partial_files[k]) # {}
        /\ Cardinality(partial_doc_ids(partial_files[k])) <= BATCH_SIZE

\* a step of the loop writes a partial exactly when the document yielded is
\* the BATCH_SIZE-th, 2*BATCH_SIZE-th, ... of all documents yielded and the
\* index is non-empty, or when the input ends and the index is non-empty; the
\* partial written holds the index, which is then empty again inside the loop
spill_on_file_count ==
    /\ (pc = "loop" /\ pc' = "body") =>
           /\ Len(partial_files') = Len(partial_files) + 1
                  <=> (Len(yielded') % BATCH_SIZE = 0 /\ Index_len(current_index) > 0)
           /\ Len(partial_files') # Len(partial_files) => Index_len(current_index') = 0
    /\ (pc = "loop" /\ pc' # "body") =>
           (Len(partial_files') = Len(partial_files) + 1 <=> Index_len(current_index) > 0)
    /\ pc = "body" => partial_files' = partial_files
    /\ (pc \in {"loop", "body"} /\ Len(partial_files') # Len(partial_files)) =>
           /\ SubSeq(partial_files', 1, Len(partial_files)) = partial_files
           /\ partial_files'[Len(partial_files')] = write_partial_index(objs, current_index)

C21_MemoryBound ==
    pc \in {"loop", "body"} => Cardinality(posting_doc_ids(objs)) <= BATCH_SIZE

\* C21 witness: with a skipped document among those yielded, the in-memory
\* index holds BATCH_SIZE doc-ids
C21_Witness ==
    /\ pc = "loop"
    /\ next_doc_id < Len(yielded)
    /\ Cardinality(posting_doc_ids(objs)) = BATCH_SIZE

\* ------------------------------------------------------------------------
\* The heap of merge_partial_indexes
\* ------------------------------------------------------------------------

\* any list of partial files over the tokens 0, a and ab
InitMergeLive ==
    /\ pc = "merge"
    /\ BuildIdle
    /\ \E n \in 0..MaxPartials :
          \E S \in [1..n -> SUBSET {k \in 1..Len(MergeTokens) : MergeTokens[k] # t_b}] :
              partial_files = [f \in 1..n |-> PartialFile(S[f], f)]
    /\ MergeIdle
    /\ UnitIdle

\* the merge with the scheduling of a sequential program: a step that can be
\* taken is taken
SpecMergeLive == InitMergeLive /\ [][NextMerge]_vars /\ WF_vars(NextMerge)

merging == pc \in {"merge_loop", "merge_drain"}

\* the entries of the heap come from different files, and the entry of a file
\* is the line that file was read last; so the heap holds at most one entry
\* per partial file
heap_one_per_file ==
    merging =>
        /\ Len(heap) <= Len(partial_files)
        /\ \A i, j \in 1..Len(heap) : heap[i].file = heap[j].file => i = j
        /\ \A i \in 1..Len(heap) :
               /\ files_pos[heap[i].file] >= 1
               /\ heap[i].entry =
                      IndexEntry_from_dict(
                          partial_files[heap[i].file][files_pos[heap[i].file]])

\* a step of the merge loop pops one entry and reads at most one line, the
\* next one of the file the popped entry came from; the line read is pushed
lines_pushed_in_turn ==
    (merging /\ heap' # heap) =>
        \E i \in 1..Len(heap) :
            LET f    == heap[i].file
                rest == heap_remove(heap, i)
            IN  /\ \A g \in DOMAIN files_pos \ {f} : files_pos'[g] = files_pos[g]
                /\ \/ /\ files_pos'[f] = files_pos[f] + 1
                      /\ heap' = Append(rest,
                                        HeapEntry(partial_files[f][files_pos'[f]].token,
                                                  IndexEntry_from_dict(
                                                      partial_files[f][files_pos'[f]]),
                                                  f))
                   \/ /\ files_pos'[f] = files_pos[f]
                      /\ files_pos[f] = Len(partial_files[f])
                      /\ heap' = rest

\* every line of every partial has been read and none is left in the heap
partials_exhausted ==
    /\ heap = <<>>
    /\ DOMAIN files_pos = DOMAIN partial_files
    /\ \A f \in DOMAIN partial_files : files_pos[f] = Len(partial_files[f])

\* C22: during the merge the heap holds at most one entry per partial file,
\* every line of every partial is pushed once, in file order, and the merge
\* loop ends with every partial exhausted
C22_HeapBound ==
    /\ []heap_one_per_file
    /\ [][lines_pushed_in_turn]_vars
    /\ [](pc = "done" => partials_exhausted)
    /\ <>(pc = "done")

\* C22 witness: two partials of two lines each are both in the heap after
\* a line of each was popped
C22_Witness ==
    /\ merging
    /\ Len(partial_files) = 2
    /\ Len(heap) = 2
    /\ files_pos = <<2, 2>>

\* ------------------------------------------------------------------------
\* merge_partial_indexes over partial files with a line that cannot be read
\* ------------------------------------------------------------------------

\* the files with line k of file f cut down to its token (no "postings" key)
with_unreadable_line(files, f, k) ==
    [files EXCEPT ![f][k] = [token |-> @.token]]

\* any list of partial files, none or one of their lines unreadable
InitMergeUnreadable ==
    /\ pc = "merge"
    /\ BuildIdle
    /\ \E n \in 1..MaxPartials :
          \E S \in [1..n -> SUBSET (1..Len(MergeTokens))] :
              LET files == [f \in 1..n |-> PartialFile(S[f], f)]
              IN  \/ partial_files = files
                  \/ \E f \in 1..n : \E k \in 1..Len(files[f]) :
                         partial_files = with_unreadable_line(files, f, k)
    /\ MergeIdle
    /\ UnitIdle

NextMergeUnreadable ==
    \/ NextMerge
    \/ MergeStartRaise
    \/ MergePopRaise
    \/ MergeDrainRaise

SpecMergeUnreadable == InitMergeUnreadable /\ [][NextMergeUnreadable]_vars

\* C23: whichever way merge_partial_indexes is left, by its end or by an
\* exception raised while a partial line is read, the shard file it has open
\* is closed
C23_ShardClosedOnExit ==
    pc \in {"done", "raised"} => (out_file = None \/ out_file[1].closed)

\* C23 witness: the merge was left by an exception after a line was written
\* to the shard of the letter a
C23_Witness ==
    /\ pc = "raised"
    /\ out_file # None
    /\ out_file[1].name = 97
    /\ shards[97] # <<>>

\* ------------------------------------------------------------------------
\* Indexes built through add_token alone
\* ------------------------------------------------------------------------

NextAddToken ==
    \E ix \in {"self", "other"}, token \in IndexTokens, call \in Calls :
        AddToken(ix, token, call)

SpecAddToken == InitIndex /\ [][NextAddToken]_vars

\* the tf values add_token rejects, as tried on every index reached
RejectedTf == {-1, 0}

\* add_token with a tf that is not positive returns the heap of entries and
\* the index as they were, for a token the index holds and for one it does not
rejected_tf_is_noop ==
    \A ix \in {"self", "other"}, token \in IndexTokens \cup {t_z},
       doc_id \in 0..2, tf \in RejectedTf, importance \in {NORMAL, BOLD_OR_HEADING, TITLE} :
        Index_add_token(objs, index_of(ix), token, doc_id, tf, importance)
            = [objs |-> objs, index |-> index_of(ix)]

\* C24: add_token with tf <= 0 leaves the index unchanged (no entry created,
\* no posting added or altered), and every posting of an index built through
\* add_token alone has tf >= 1
C24_NonPositiveTfRejected ==
    /\ rejected_tf_is_noop
    /\ \A r \in 1..Len(objs) : \A j \in 1..Len(objs[r].postings) :
           objs[r].postings[j].tf >= 1

\* C24 witness: of two add_token calls one had tf 0 and the index holds the
\* posting of the other alone
C24_Witness ==
    /\ pc = "index_ops"
    /\ n_ops = 2
    /\ Len(objs) = 1
    /\ objs[1].postings = <<Posting(0, 1, NORMAL)>>
    /\ Index_len(current_index) = 1
    /\ Index_len(other_index) = 0

\* ------------------------------------------------------------------------
\* DuplicateDetector.check without token counts
\* ------------------------------------------------------------------------

\* the latest call was check(html, None) with html not None
checked_without_counts ==
    /\ last_check # None
    /\ last_check[1].content # None
    /\ last_check[1].token_counts = None

\* C25: check with token_counts = None and html not None consults the exact
\* check alone: "exact" when the content hash of html is registered, (None,
\* None) otherwise; check with html = None returns (None, None)
C25_CheckWithoutCounts ==
    /\ checked_without_counts =>
           IF content_hash(last_check[1].content[1]) \in detector.seen_content_hashes
           THEN last_check[1].result.reason = Some("exact")
           ELSE last_check[1].result = [reason |-> None, simhash |-> None]
    /\ (last_check # None /\ last_check[1].content = None) =>
           last_check[1].result = [reason |-> None, simhash |-> None]

\* C25 witness: a document was registered and then checked without token
\* counts
C25_Witness ==
    /\ checked_without_counts
    /\ content_hash(last_check[1].content[1]) \in detector.seen_content_hashes

\* ------------------------------------------------------------------------
\* The search command line
\* ------------------------------------------------------------------------

\* C26: the command line runs its argument as one multi-term query: it prints
\* one line per document holding every token of the query, no document twice,
\* numbered 1..n, in descending order of score
C26_SingleQuery ==
    (search_out # None /\ search_out[1].op = "main"
        /\ shards_exist(search_out[1].query)) =>
        LET out     == search_out[1].out
            results == [i \in 1..Len(out.printed) |-> <<out.printed[i][2], out.printed[i][3]>>]
            docs    == candidates({indexed_docs(t) :
                                      t \in DOMAIN tokenize(search_out[1].query)}, AND)
        IN  /\ out.raised = None
            /\ Len(results) = Cardinality(docs)
            /\ result_docs(results) = docs
            /\ \A i \in 1..Len(out.printed) : out.printed[i][1] = i
            /\ \A i \in 1..(Len(results) - 1) : results[i][2] >= results[i + 1][2]

\* C26 witness: the command line was run on a query of two words that share
\* documents
C26_Witness ==
    /\ search_out # None
    /\ search_out[1].op = "main"
    /\ search_out[1].query = <<t_ab, t_a>>
    /\ indexed_docs(t_a) \cap indexed_docs(t_ab) # {}

\* ------------------------------------------------------------------------
\* The fingerprints of the indexed documents
\* ------------------------------------------------------------------------

\* the (fingerprint, doc_id) pairs in the detector's block indexes
stored_fingerprints ==
    UNION {UNION {{detector.block_indexes[i][b][c] :
                       c \in 1..Len(detector.block_indexes[i][b])} :
                  b \in DOMAIN detector.block_indexes[i]} :
           i \in 1..detector.num_blocks}

\* C27: any two fingerprints stored in the block indexes under different
\* doc-ids differ in more than HAMMING_K bits
C27_StoredFingerprintsApart ==
    \A p, q \in stored_fingerprints :
        p[2] < q[2] => differing_bits(p[1], q[1]) > HAMMING_K

\* C27 witness: a document at distance 3 of an indexed one was skipped, and
\* two documents at distance 4 of each other are both indexed
C27_Witness ==
    /\ pc = "loop"
    /\ near_dups_removed = 1
    /\ yielded = <<Some(H0), Some(H1), Some(H2)>>
    /\ Cardinality({p[2] : p \in stored_fingerprints}) = 2

\* ------------------------------------------------------------------------
\* The outcomes of the documents
\* ------------------------------------------------------------------------

\* the documents whose iteration of the loop is over
handled == IF pc = "body" THEN Len(yielded) - 1 ELSE Len(yielded)

\* the number of documents with null content among them
null_documents == Cardinality({i \in 1..handled : yielded[i] = None})

\* the documents that ended in one of the four outcomes
documents_settled ==
    next_doc_id + exact_dups_removed + near_dups_removed + null_documents

\* IndexStats.num_docs as build_index returns it
num_docs == next_doc_id

\* C28: every document yielded ends in exactly one of the outcomes null
\* content, exact duplicate, near duplicate, indexed: at the end of every
\* iteration of the loop file_count is the sum of the four counts, inside an
\* iteration the document at hand is the one not yet counted, and the num_docs
\* returned is the number of entries of the doc-id mapping
C28_OutcomeAccounting ==
    /\ file_count = Len(yielded)
    /\ pc = "body" => file_count = documents_settled + 1
    /\ pc # "body" => file_count = documents_settled
    /\ pc = "done" => num_docs = Cardinality(DOMAIN doc_id_to_url)

\* C28 witness: the build is done after one document of each outcome
C28_Witness ==
    /\ pc = "done"
    /\ null_documents = 1
    /\ exact_dups_removed = 1
    /\ near_dups_removed = 1
    /\ next_doc_id = 1

====
